---------------------------- MODULE Spec2Model ----------------------------
(***************************************************************************)
(* Chord Seeker: the note arithmetic, the triad position enumerator, the   *)
(* progression transposer, the riff generator, the tab formatter, the MIDI *)
(* export, the Song Builder mixer with its audio engine and the chord      *)
(* analyzer, as state machines.                                            *)
(*                                                                         *)
(* Beat positions and durations are kept in quarter-beat units (a beat of  *)
(* 0.25 is 1, a beat of 3.5 is 14), so that the patterns of the riff       *)
(* generator stay integers.  JavaScript's undefined is the value Undefined.*)
(***************************************************************************)
EXTENDS Integers, Sequences, FiniteSets, TLC

VARIABLES
    \* triad enumerator (utils/triadUtils.ts)
    root, quality, positions, triadDone,
    \* note arithmetic and progression transposer (utils/scaleUtils.ts)
    note, semitones, transposedNote, progression, rootNote, transposed, scaleOp,
    \* riff generator (utils/riffGenerator.ts)
    style, chordIndex, pattern, index, notesLength, prevNote, pushed, drawn, riffPc,
    \* riff editing and tab formatter (utils/riffGenerator.ts, utils/tabFormatter.ts)
    riff, tabSheet, lookup, tabPc,
    \* MIDI export (utils/midiExport.ts)
    volume, midi, tracksMidi, midiPc,
    \* variable-length quantities (utils/midiExport.ts)
    varLenValue, varLenBytes, varLenPc,
    \* Song Builder mixer and SongAudioEngine (components/SongBuilderPanel.tsx,
    \* audio/songEngine.ts)
    tracks, engine, currentTime, songPc,
    \* chord analyzer (utils/chordAnalyzer.ts)
    selectedNotes, analysis, analyzerPc

triadVars == <<root, quality, positions, triadDone>>
scaleVars == <<note, semitones, transposedNote, progression, rootNote, transposed, scaleOp>>
riffVars == <<style, chordIndex, pattern, index, notesLength, prevNote, pushed, drawn, riffPc>>
tabVars == <<riff, tabSheet, lookup, tabPc>>
midiVars == <<volume, midi, tracksMidi, midiPc>>
varLenVars == <<varLenValue, varLenBytes, varLenPc>>
songVars == <<tracks, engine, currentTime, songPc>>
analyzerVars == <<selectedNotes, analysis, analyzerPc>>
vars == <<triadVars, scaleVars, riffVars, tabVars, midiVars, varLenVars, songVars, analyzerVars>>

Undefined == "undefined"

(***************************************************************************)
(* Bounds of the model.                                                    *)
(***************************************************************************)
\* transposeNote is applied to every semitone count in -MaxSemitones..MaxSemitones
MaxSemitones == 26
\* generateChordRiff draws its pattern among the first MaxPatterns of the style
MaxPatterns == 2

(***************************************************************************)
(* JavaScript arithmetic.                                                  *)
(***************************************************************************)
\* a % b of JavaScript for b > 0: the result takes the sign of the dividend
JsMod(a, b) == IF a >= 0 THEN a % b ELSE 0 - ((0 - a) % b)

Min2(a, b) == IF a <= b THEN a ELSE b
Max2(a, b) == IF a >= b THEN a ELSE b
Abs(a) == IF a >= 0 THEN a ELSE 0 - a

(***************************************************************************)
(* data/notes.ts and data/chordQualities.ts: the static tables.            *)
(***************************************************************************)
NOTES == <<"C", "C#", "D", "D#", "E", "F", "F#", "G", "G#", "A", "A#", "B">>

NoteIds == {NOTES[i] : i \in 1..Len(NOTES)}

\* NOTE_TO_INDEX[note]
NOTE_TO_INDEX(n) == (CHOOSE i \in 1..Len(NOTES) : NOTES[i] = n) - 1

\* INDEX_TO_NOTE[i]: an array read outside 0..11 gives undefined
INDEX_TO_NOTE(i) == IF i \in 0..(Len(NOTES) - 1) THEN NOTES[i + 1] ELSE Undefined

\* string 6 is the low E string, string 1 the high E string
GUITAR_STRINGS == <<6, 5, 4, 3, 2, 1>>

\* standard tuning E A D G B E, with the MIDI number of each open string
STRING_TUNINGS(s) ==
    CASE s = 6 -> [note |-> "E", index |-> 4, midi |-> 40]
      [] s = 5 -> [note |-> "A", index |-> 9, midi |-> 45]
      [] s = 4 -> [note |-> "D", index |-> 2, midi |-> 50]
      [] s = 3 -> [note |-> "G", index |-> 7, midi |-> 55]
      [] s = 2 -> [note |-> "B", index |-> 11, midi |-> 59]
      [] s = 1 -> [note |-> "E", index |-> 4, midi |-> 64]

ChordQualities ==
    {"major", "minor", "flatThird", "sus2", "sus4", "dominant7", "major7",
     "minor7", "add9", "diminished", "augmented"}

\* QUALITY_MAP[quality].intervals
QUALITY_MAP(q) ==
    CASE q = "major"      -> [intervals |-> <<"R", "3", "5">>]
      [] q = "minor"      -> [intervals |-> <<"R", "b3", "5">>]
      [] q = "flatThird"  -> [intervals |-> <<"R", "b3", "5">>]
      [] q = "sus2"       -> [intervals |-> <<"R", "2", "5">>]
      [] q = "sus4"       -> [intervals |-> <<"R", "4", "5">>]
      [] q = "dominant7"  -> [intervals |-> <<"R", "3", "5", "b7">>]
      [] q = "major7"     -> [intervals |-> <<"R", "3", "5", "7">>]
      [] q = "minor7"     -> [intervals |-> <<"R", "b3", "5", "b7">>]
      [] q = "add9"       -> [intervals |-> <<"R", "3", "5", "9">>]
      [] q = "diminished" -> [intervals |-> <<"R", "b3", "b5">>]
      [] q = "augmented"  -> [intervals |-> <<"R", "3", "#5">>]

\* INTERVAL_TO_SEMITONES[interval]
INTERVAL_TO_SEMITONES(i) ==
    CASE i = "R" -> 0   [] i = "b2" -> 1  [] i = "2" -> 2   [] i = "b3" -> 3
      [] i = "3" -> 4   [] i = "4" -> 5   [] i = "#4" -> 6  [] i = "b5" -> 6
      [] i = "5" -> 7   [] i = "#5" -> 8  [] i = "b6" -> 8  [] i = "6" -> 9
      [] i = "b7" -> 10 [] i = "7" -> 11  [] i = "9" -> 14

(***************************************************************************)
(* utils/triadUtils.ts                                                     *)
(***************************************************************************)
MAX_FRET == 15
MAX_SPAN == 5

\* the three nested loops i < j < k over GUITAR_STRINGS, in loop order
generateStringCombinations ==
    LET n == Len(GUITAR_STRINGS)
        all == [x \in 1..(n * n * n) |->
                   <<((x - 1) \div (n * n)) + 1, (((x - 1) \div n) % n) + 1, ((x - 1) % n) + 1>>]
        ordered == SelectSeq(all, LAMBDA t : t[1] < t[2] /\ t[2] < t[3])
    IN  [x \in 1..Len(ordered) |->
            <<GUITAR_STRINGS[ordered[x][1]], GUITAR_STRINGS[ordered[x][2]],
              GUITAR_STRINGS[ordered[x][3]]>>]

triadCalculateNoteFromInterval(r, interval) ==
    INDEX_TO_NOTE(JsMod(NOTE_TO_INDEX(r) + INTERVAL_TO_SEMITONES(interval), 12))

\* while (fret < 0) fret += 12
RECURSIVE firstFret(_)
firstFret(fret) == IF fret < 0 THEN firstFret(fret + 12) ELSE fret

\* while (fret <= maxFret) { frets.push(fret); fret += 12 }
RECURSIVE fretsFrom(_, _)
fretsFrom(fret, maxFret) ==
    IF fret <= maxFret THEN <<fret>> \o fretsFrom(fret + 12, maxFret) ELSE <<>>

findAllFretsForNote(stringId, targetNote, maxFret) ==
    fretsFrom(firstFret(NOTE_TO_INDEX(targetNote) - STRING_TUNINGS(stringId).index), maxFret)

isPlayableNoSpan(pos) ==
    ~(\E i \in 1..3 : pos.notes[i].fret > MAX_FRET)

\* the predicate of filterPlayablePositions
isPlayable(pos) ==
    /\ ~(\E i \in 1..3 : pos.notes[i].fret > MAX_FRET)
    /\ ~(pos.span > MAX_SPAN)

filterPlayablePositions(ps) == SelectSeq(ps, isPlayable)

\* the positions of one string set: the three nested forEach over fretOptions
positionsOfStringSet(stringSet, triadIntervals, targetNotes) ==
    LET fretOptions == [idx \in 1..3 |->
            LET frets == findAllFretsForNote(stringSet[idx], targetNotes[idx], MAX_FRET)
            IN  [f \in 1..Len(frets) |->
                    [string |-> stringSet[idx], fret |-> frets[f],
                     interval |-> triadIntervals[idx], note |-> targetNotes[idx]]]]
        n1 == Len(fretOptions[1])
        n2 == Len(fretOptions[2])
        n3 == Len(fretOptions[3])
    IN  [x \in 1..(n1 * n2 * n3) |->
            LET note1 == fretOptions[1][((x - 1) \div (n2 * n3)) + 1]
                note2 == fretOptions[2][(((x - 1) \div n3) % n2) + 1]
                note3 == fretOptions[3][((x - 1) % n3) + 1]
                minFret == Min2(note1.fret, Min2(note2.fret, note3.fret))
                maxFret == Max2(note1.fret, Max2(note2.fret, note3.fret))
            IN  [notes |-> <<note1, note2, note3>>, minFret |-> minFret,
                 maxFret |-> maxFret, span |-> maxFret - minFret,
                 stringSet |-> stringSet]]

RECURSIVE allPositionsFrom(_, _, _, _)
allPositionsFrom(stringCombos, k, triadIntervals, targetNotes) ==
    IF k > Len(stringCombos) THEN <<>>
    ELSE positionsOfStringSet(stringCombos[k], triadIntervals, targetNotes)
            \o allPositionsFrom(stringCombos, k + 1, triadIntervals, targetNotes)

comparePositionsAscending(a, b) ==
    IF a.minFret # b.minFret THEN a.minFret - b.minFret
    ELSE a.stringSet[1] - b.stringSet[1]

\* the comparator of playablePositions.sort
comparePositions(a, b) ==
    IF a.minFret # b.minFret THEN a.minFret - b.minFret
    ELSE b.stringSet[1] - a.stringSet[1]

\* Array.prototype.sort is stable: element i comes after the elements that
\* compare smaller and after the earlier elements that compare equal
sortPositions(ps) ==
    LET before(i) == {j \in 1..Len(ps) :
                        \/ comparePositions(ps[j], ps[i]) < 0
                        \/ (comparePositions(ps[j], ps[i]) = 0 /\ j < i)}
    IN  [k \in 1..Len(ps) |->
            ps[CHOOSE i \in 1..Len(ps) : Cardinality(before(i)) = k - 1]]

generateTriadPositions(r, q) ==
    LET all == QUALITY_MAP(q).intervals
        triadIntervals == SubSeq(all, 1, Min2(3, Len(all)))
    IN  IF Len(triadIntervals) < 3 THEN <<>>
        ELSE LET targetNotes == [i \in 1..3 |-> triadCalculateNoteFromInterval(r, triadIntervals[i])]
                 allPositions == allPositionsFrom(generateStringCombinations, 1,
                                                  triadIntervals, targetNotes)
                 playablePositions == filterPlayablePositions(allPositions)
             IN  sortPositions(playablePositions)

(***************************************************************************)
(* utils/scaleUtils.ts                                                     *)
(***************************************************************************)
transposeNoteWrapped(n, s) == INDEX_TO_NOTE((NOTE_TO_INDEX(n) + s) % 12)

transposeNote(n, s) == INDEX_TO_NOTE(JsMod(NOTE_TO_INDEX(n) + s + 12, 12))

\* INTERVAL_TO_SEMITONES[interval] || 0
calculateNoteFromInterval(r, interval) ==
    INDEX_TO_NOTE(JsMod(NOTE_TO_INDEX(r) + INTERVAL_TO_SEMITONES(interval), 12))

\* data/progressions.ts: the chords of each progression (the degree label of
\* the diminished chord of jazzMinor, "ii" with a degree sign, is written "ii dim")
Chord(d, q, o) == [degree |-> d, quality |-> q, scaleDegreeOffset |-> o]

PROGRESSIONS(id) ==
    CASE id = "classic145" ->
            <<Chord("I", "major", 0), Chord("IV", "major", 5), Chord("V", "major", 7)>>
      [] id = "pop6415" ->
            <<Chord("vi", "minor", 9), Chord("IV", "major", 5), Chord("I", "major", 0),
              Chord("V", "major", 7)>>
      [] id = "fifties1564" ->
            <<Chord("I", "major", 0), Chord("V", "major", 7), Chord("vi", "minor", 9),
              Chord("IV", "major", 5)>>
      [] id = "jazz2515" ->
            <<Chord("ii", "minor7", 2), Chord("V7", "dominant7", 7),
              Chord("Imaj7", "major7", 0)>>
      [] id = "bluesy1514" ->
            <<Chord("I7", "dominant7", 0), Chord("V7", "dominant7", 7),
              Chord("I7", "dominant7", 0), Chord("IV7", "dominant7", 5)>>
      [] id = "minor1645" ->
            <<Chord("i", "minor", 0), Chord("VI", "major", 8), Chord("IV", "major", 5),
              Chord("V", "major", 7)>>
      [] id = "minor1467" ->
            <<Chord("i", "minor", 0), Chord("IV", "minor", 5), Chord("VI", "major", 8),
              Chord("VII", "major", 10)>>
      [] id = "minor1743" ->
            <<Chord("i", "minor", 0), Chord("VII", "major", 10), Chord("VI", "major", 8),
              Chord("V", "major", 7)>>
      [] id = "minor1674" ->
            <<Chord("i", "minor", 0), Chord("VI", "major", 8), Chord("VII", "major", 10),
              Chord("IV", "major", 5)>>
      [] id = "jazzMinor" ->
            <<Chord("ii dim", "diminished", 2), Chord("V7", "dominant7", 7),
              Chord("im7", "minor7", 0)>>

ProgressionIds ==
    {"classic145", "pop6415", "fifties1564", "jazz2515", "bluesy1514", "minor1645",
     "minor1467", "minor1743", "minor1674", "jazzMinor"}

transposeProgressionReversed(chords, r) ==
    [i \in 1..Len(chords) |->
        [note |-> transposeNote(r, chords[Len(chords) + 1 - i].scaleDegreeOffset),
         quality |-> chords[i].quality, degree |-> chords[i].degree]]

\* progression.chords.map(...)
transposeProgression(chords, r) ==
    [i \in 1..Len(chords) |->
        [note |-> transposeNote(r, chords[i].scaleDegreeOffset),
         quality |-> chords[i].quality, degree |-> chords[i].degree]]

(***************************************************************************)
(* data/scales.ts and the scale selection of utils/scaleUtils.ts           *)
(***************************************************************************)
Scale(id, intervals, compatibleQualities) ==
    [id |-> id, intervals |-> intervals, compatibleQualities |-> compatibleQualities]

\* Object.values(SCALES), in the order of the object literal
SCALES ==
    << Scale("minorPentatonic", <<"R", "b3", "4", "5", "b7">>, {"minor", "minor7"}),
       Scale("majorPentatonic", <<"R", "2", "3", "5", "6">>, {"major", "major7"}),
       Scale("naturalMinor", <<"R", "2", "b3", "4", "5", "b6", "b7">>, {"minor", "minor7"}),
       Scale("majorScale", <<"R", "2", "3", "4", "5", "6", "7">>, {"major", "major7"}),
       Scale("harmonicMinor", <<"R", "2", "b3", "4", "5", "b6", "7">>, {"minor", "minor7"}),
       Scale("melodicMinor", <<"R", "2", "b3", "4", "5", "6", "7">>, {"minor", "minor7"}),
       Scale("dorian", <<"R", "2", "b3", "4", "5", "6", "b7">>, {"minor", "minor7"}),
       Scale("phrygian", <<"R", "b2", "b3", "4", "5", "b6", "b7">>, {"minor", "minor7"}),
       Scale("lydian", <<"R", "2", "3", "#4", "5", "6", "7">>, {"major", "major7"}),
       Scale("mixolydian", <<"R", "2", "3", "4", "5", "6", "b7">>, {"major", "dominant7"}),
       Scale("locrian", <<"R", "b2", "b3", "4", "b5", "b6", "b7">>, {"diminished"}),
       Scale("bluesScale", <<"R", "b3", "4", "b5", "5", "b7">>, {"minor", "minor7", "dominant7"}) >>

NoScale == Scale("null", <<>>, {})

isScaleCompatible(scale, q) == q \in scale.compatibleQualities

\* compatible.find(s => s.id === id) || rest
findScaleOr(compatible, id, rest) ==
    LET found == SelectSeq(compatible, LAMBDA sc : sc.id = id)
    IN  IF Len(found) > 0 THEN found[1] ELSE rest

getBestScaleForChord(chordQuality, availableScales) ==
    LET compatible == SelectSeq(availableScales, LAMBDA sc : isScaleCompatible(sc, chordQuality))
    IN  IF Len(compatible) = 0 THEN NoScale
        ELSE IF chordQuality \in {"minor", "minor7"}
            THEN findScaleOr(compatible, "minorPentatonic",
                             findScaleOr(compatible, "dorian", compatible[1]))
        ELSE IF chordQuality \in {"major", "major7"}
            THEN findScaleOr(compatible, "majorPentatonic",
                             findScaleOr(compatible, "majorScale", compatible[1]))
        ELSE IF chordQuality = "dominant7"
            THEN findScaleOr(compatible, "mixolydian",
                             findScaleOr(compatible, "bluesScale", compatible[1]))
        ELSE compatible[1]

(***************************************************************************)
(* utils/riffGenerator.ts                                                  *)
(***************************************************************************)
\* one beat is BeatUnit quarter-beats
BeatUnit == 4

MELODIC_PATTERNS ==
    << <<0, 4, 8, 12>>, <<0, 2, 4, 8, 10, 12>>, <<0, 4, 6, 8, 12, 14>>, <<0, 2, 4, 6, 8, 12>> >>

ARPEGGIATED_PATTERNS ==
    << <<0, 2, 4, 6, 8, 10, 12, 14>>, <<0, 4, 8, 12, 8, 4>>, <<0, 2, 4, 8, 10, 12>> >>

BASS_PATTERNS ==
    << <<0, 8>>, <<0, 4, 8, 12>>, <<0, 2, 8, 10>>, <<0, 8, 10, 12>> >>

COMPLEX_PATTERNS ==
    << <<0, 1, 2, 4, 6, 8, 9, 10, 12, 14>>, <<0, 2, 3, 4, 6, 8, 10, 12, 13, 14>>,
       <<0, 1, 2, 4, 5, 8, 10, 11, 12, 14>>, <<0, 2, 4, 5, 6, 8, 9, 11, 12, 14>> >>

TECHNIQUE_WEIGHTS ==
    << [technique |-> "normal", weight |-> 35], [technique |-> "hammer-on", weight |-> 15],
       [technique |-> "pull-off", weight |-> 15], [technique |-> "slide-up", weight |-> 10],
       [technique |-> "slide-down", weight |-> 8], [technique |-> "bend", weight |-> 7],
       [technique |-> "harmonic", weight |-> 5], [technique |-> "muted", weight |-> 5] >>

HARMONIC_FRETS == <<5, 7, 12>>

RiffStyles == {"melodic", "arpeggiated", "bass-driven", "complex"}

\* a value of Math.random(), in hundredths: 0.00, 0.01, .. 0.99
RandomDraws == 0..99

\* the fret of an absent targetFret, and the record of an absent note
NoFret == 0 - 1
NoPosition == [string |-> 0, fret |-> NoFret]
NoNote ==
    [string |-> 0, fret |-> NoFret, duration |-> 0, startBeat |-> 0, note |-> Undefined,
     interval |-> Undefined, technique |-> Undefined, targetFret |-> NoFret]
NoDraw == [selectedTechnique |-> Undefined, slideAmount |-> 0, position |-> NoPosition]

RECURSIVE sumWeights(_)
sumWeights(k) == IF k = 0 THEN 0 ELSE sumWeights(k - 1) + TECHNIQUE_WEIGHTS[k].weight

\* the weight cumulated up to each entry of TECHNIQUE_WEIGHTS
cumulatedWeights == [k \in 1..Len(TECHNIQUE_WEIGHTS) |-> sumWeights(k)]

\* selectTechnique for the value r / 100 of the Math.random() call that
\* decides: random = r/100 * totalWeight, scaled by 0.8 when prevNote exists;
\* the loop returns the first technique whose cumulated weight reaches random
selectTechnique(hasPrev, r) ==
    LET totalWeight == cumulatedWeights[Len(TECHNIQUE_WEIGHTS)]
        \* random * 1000
        random == IF hasPrev THEN r * totalWeight * 8 ELSE r * totalWeight * 10
        hits == {k \in 1..Len(TECHNIQUE_WEIGHTS) : random - 1000 * cumulatedWeights[k] <= 0}
    IN  IF hits = {} THEN "normal"
        ELSE TECHNIQUE_WEIGHTS[CHOOSE k \in hits : \A l \in hits : k <= l].technique

\* the techniques selectTechnique can return, over all values of Math.random()
selectableTechniques == [hasPrev \in BOOLEAN |-> {selectTechnique(hasPrev, r) : r \in RandomDraws}]

\* the positions of one string, frets ascending
positionsOnString(targetNote, stringId, fretRange) ==
    LET targetIndex == NOTE_TO_INDEX(targetNote)
        tuning == STRING_TUNINGS(stringId)
        hit(fret) == (tuning.index + fret) % 12 = targetIndex
        frets == SelectSeq([i \in 1..(fretRange.max - fretRange.min + 1) |-> fretRange.min + i - 1], hit)
    IN  [i \in 1..Len(frets) |-> [string |-> stringId, fret |-> frets[i]]]

RECURSIVE findAllNotePositionsFrom(_, _, _, _)
findAllNotePositionsFrom(targetNote, strings, k, fretRange) ==
    IF k > Len(strings) THEN <<>>
    ELSE positionsOnString(targetNote, strings[k], fretRange)
            \o findAllNotePositionsFrom(targetNote, strings, k + 1, fretRange)

findAllNotePositions(targetNote, preferredStrings, fretRange) ==
    findAllNotePositionsFrom(targetNote, preferredStrings, 1, fretRange)

SeqToSet(sq) == {sq[i] : i \in 1..Len(sq)}

\* positions.sort by fret distance to the previous position (stable), for a
\* list whose positions are all on, or all off, the previous string
sortByFretDistance(ps, prevPosition) ==
    LET dist(i) == Abs(ps[i].fret - prevPosition.fret)
        before(i) == {j \in 1..Len(ps) : dist(j) < dist(i) \/ (dist(j) = dist(i) /\ j < i)}
    IN  [k \in 1..Len(ps) |-> ps[CHOOSE i \in 1..Len(ps) : Cardinality(before(i)) = k - 1]]

findNotePositionAnyString(targetNote, preferredStrings, fretRange, prevPosition) ==
    SeqToSet(findAllNotePositions(targetNote, GUITAR_STRINGS, fretRange))

\* findNotePosition: the set of positions it can return ({} when it returns
\* null).  With a previous position the list is sorted by a comparator that
\* draws Math.random() whenever exactly one of the two positions is on the
\* previous string; the order such a sort leaves is not determined, so every
\* position of the list can be one of the top two choices.
findNotePosition(targetNote, preferredStrings, fretRange, prevPosition) ==
    LET preferred == findAllNotePositions(targetNote, preferredStrings, fretRange)
        ps == IF Len(preferred) = 0
              THEN findAllNotePositions(targetNote, GUITAR_STRINGS, fretRange)
              ELSE preferred
        sameString == {i \in 1..Len(ps) : ps[i].string = prevPosition.string}
    IN  IF Len(ps) = 0 THEN {}
        ELSE IF Len(ps) = 1 THEN {ps[1]}
        ELSE IF prevPosition # NoPosition
            THEN IF sameString = {} \/ sameString = 1..Len(ps)
                 THEN SeqToSet(SubSeq(sortByFretDistance(ps, prevPosition), 1, Min2(2, Len(ps))))
                 ELSE SeqToSet(ps)
        ELSE SeqToSet(ps)

getChordTones(r, q) ==
    [i \in 1..Len(QUALITY_MAP(q).intervals) |->
        calculateNoteFromInterval(r, QUALITY_MAP(q).intervals[i])]

getScaleNotes(r, q) ==
    LET scale == getBestScaleForChord(q, SCALES)
    IN  IF scale = NoScale THEN getChordTones(r, q)
        ELSE [i \in 1..Len(scale.intervals) |-> calculateNoteFromInterval(r, scale.intervals[i])]

\* the switch on style: patterns, preferred strings, fret range
stylePatterns(st) ==
    CASE st = "melodic" -> MELODIC_PATTERNS
      [] st = "arpeggiated" -> ARPEGGIATED_PATTERNS
      [] st = "bass-driven" -> BASS_PATTERNS
      [] st = "complex" -> COMPLEX_PATTERNS

preferredStringsOf(st) ==
    CASE st = "melodic" -> <<1, 2, 3, 4>>
      [] st = "arpeggiated" -> <<1, 2, 3, 4, 5>>
      [] st = "bass-driven" -> <<6, 5, 4>>
      [] st = "complex" -> <<1, 2, 3, 4, 5, 6>>

fretRangeOf(st) ==
    CASE st = "melodic" -> [min |-> 0, max |-> 12]
      [] st = "arpeggiated" -> [min |-> 0, max |-> 9]
      [] st = "bass-driven" -> [min |-> 0, max |-> 5]
      [] st = "complex" -> [min |-> 0, max |-> 15]

beatsPerChord == 4 * BeatUnit

Target(n, i) == [note |-> n, interval |-> i]

chordToneTargets(chordRoot, chordQuality) ==
    LET chordTones == getChordTones(chordRoot, chordQuality)
    IN  {Target(chordTones[k], QUALITY_MAP(chordQuality).intervals[k]) : k \in 1..Len(chordTones)}

scaleToneTargets(chordRoot, chordQuality) ==
    {Target(n, Undefined) : n \in SeqToSet(getScaleNotes(chordRoot, chordQuality))}

targetNotesApproachAbove(chordRoot, chordQuality, nextChordRoot, st, beatPosition, idx) ==
    LET chordTones == getChordTones(chordRoot, chordQuality)
        isStrongBeat == beatPosition = 0 \/ beatPosition = 2 * BeatUnit
        isLastBeat == beatPosition >= 3 * BeatUnit
        nextRootIndex == NOTE_TO_INDEX(nextChordRoot)
    IN  CASE st = "complex" ->
                chordToneTargets(chordRoot, chordQuality)
                \cup (IF isStrongBeat THEN {}
                      ELSE IF isLastBeat /\ nextChordRoot # Undefined
                          THEN {Target(INDEX_TO_NOTE(JsMod(nextRootIndex + d + 12, 12)), Undefined) :
                                    d \in {0 - 1, 1}}
                      ELSE {Target(INDEX_TO_NOTE(k), Undefined) : k \in 0..11}
                               \cup scaleToneTargets(chordRoot, chordQuality))
          [] st = "arpeggiated" ->
                LET toneIndex == idx % Len(chordTones)
                IN  {Target(chordTones[toneIndex + 1],
                            QUALITY_MAP(chordQuality).intervals[toneIndex + 1])}
          [] st = "bass-driven" ->
                IF isStrongBeat THEN {Target(chordRoot, "R")}
                ELSE {Target(IF Len(chordTones) > 2 THEN chordTones[3] ELSE chordTones[1], "5")}
          [] st = "melodic" ->
                IF isStrongBeat THEN chordToneTargets(chordRoot, chordQuality)
                ELSE IF isLastBeat /\ nextChordRoot # Undefined
                    THEN {Target(INDEX_TO_NOTE(JsMod(nextRootIndex + 1 + 12, 12)), Undefined)}
                ELSE scaleToneTargets(chordRoot, chordQuality)

targetNotesAnyChordTone(chordRoot, chordQuality, nextChordRoot, st, beatPosition, idx) ==
    LET chordTones == getChordTones(chordRoot, chordQuality)
        isStrongBeat == beatPosition = 0 \/ beatPosition = 2 * BeatUnit
        isLastBeat == beatPosition >= 3 * BeatUnit
        nextRootIndex == NOTE_TO_INDEX(nextChordRoot)
    IN  CASE st = "complex" ->
                chordToneTargets(chordRoot, chordQuality)
                \cup (IF isStrongBeat THEN {}
                      ELSE IF isLastBeat /\ nextChordRoot # Undefined
                          THEN {Target(INDEX_TO_NOTE(JsMod(nextRootIndex + d + 12, 12)), Undefined) :
                                    d \in {0 - 1, 1}}
                      ELSE {Target(INDEX_TO_NOTE(k), Undefined) : k \in 0..11}
                               \cup scaleToneTargets(chordRoot, chordQuality))
          [] st = "arpeggiated" -> chordToneTargets(chordRoot, chordQuality)
          [] st = "bass-driven" ->
                IF isStrongBeat THEN {Target(chordRoot, "R")}
                ELSE {Target(IF Len(chordTones) > 2 THEN chordTones[3] ELSE chordTones[1], "5")}
          [] st = "melodic" ->
                IF isStrongBeat THEN chordToneTargets(chordRoot, chordQuality)
                ELSE IF isLastBeat /\ nextChordRoot # Undefined
                    THEN {Target(INDEX_TO_NOTE(JsMod(nextRootIndex - 1 + 12, 12)), Undefined)}
                ELSE scaleToneTargets(chordRoot, chordQuality)

\* the target notes (with their interval label) the style policy can choose
\* at pattern index idx (from 0), over all outcomes of Math.random()
targetNotes(chordRoot, chordQuality, nextChordRoot, st, beatPosition, idx) ==
    LET chordTones == getChordTones(chordRoot, chordQuality)
        isStrongBeat == beatPosition = 0 \/ beatPosition = 2 * BeatUnit
        isLastBeat == beatPosition >= 3 * BeatUnit
        nextRootIndex == NOTE_TO_INDEX(nextChordRoot)
    IN  CASE st = "complex" ->
                chordToneTargets(chordRoot, chordQuality)
                \cup (IF isStrongBeat THEN {}
                      ELSE IF isLastBeat /\ nextChordRoot # Undefined
                          THEN {Target(INDEX_TO_NOTE(JsMod(nextRootIndex + d + 12, 12)), Undefined) :
                                    d \in {0 - 1, 1}}
                      ELSE {Target(INDEX_TO_NOTE(k), Undefined) : k \in 0..11}
                               \cup scaleToneTargets(chordRoot, chordQuality))
          [] st = "arpeggiated" ->
                LET toneIndex == idx % Len(chordTones)
                IN  {Target(chordTones[toneIndex + 1],
                            QUALITY_MAP(chordQuality).intervals[toneIndex + 1])}
          [] st = "bass-driven" ->
                IF isStrongBeat THEN {Target(chordRoot, "R")}
                ELSE {Target(IF Len(chordTones) > 2 THEN chordTones[3] ELSE chordTones[1], "5")}
          [] st = "melodic" ->
                IF isStrongBeat THEN chordToneTargets(chordRoot, chordQuality)
                ELSE IF isLastBeat /\ nextChordRoot # Undefined
                    THEN {Target(INDEX_TO_NOTE(JsMod(nextRootIndex - 1 + 12, 12)), Undefined)}
                ELSE scaleToneTargets(chordRoot, chordQuality)

\* HARMONIC_FRETS.find(f => f >= fretRange.min && f <= fretRange.max)
harmonicFret(fretRange) ==
    LET ok == SelectSeq(HARMONIC_FRETS, LAMBDA f : f >= fretRange.min /\ f <= fretRange.max)
    IN  IF Len(ok) > 0 THEN ok[1] ELSE NoFret

Played(fret, technique, targetFret) ==
    [fret |-> fret, technique |-> technique, targetFret |-> targetFret]

applyTechniqueLegatoAnyFret(selectedTechnique, position, prev, fretRange, slideAmount, bendAmount) ==
    IF selectedTechnique \in {"hammer-on", "pull-off"} /\ prev # NoPosition
                                                      /\ prev.string = position.string
    THEN Played(position.fret, selectedTechnique, NoFret)
    ELSE Played(position.fret, Undefined, NoFret)

applyTechniqueBendAnywhere(selectedTechnique, position, prev, fretRange, slideAmount, bendAmount) ==
    IF selectedTechnique = "bend"
    THEN Played(position.fret, "bend", position.fret + bendAmount)
    ELSE Played(position.fret, Undefined, NoFret)

\* the technique adjustment of lines 301-346 for the drawn technique, slide
\* amount (2 or 3) and bend amount (1 or 2)
applyTechnique(selectedTechnique, position, prev, fretRange, slideAmount, bendAmount) ==
    LET normal == Played(position.fret, Undefined, NoFret)
    IN  IF selectedTechnique = "harmonic"
            THEN IF harmonicFret(fretRange) # NoFret
                 THEN Played(harmonicFret(fretRange), "harmonic", NoFret)
                 ELSE normal
        ELSE IF selectedTechnique = "hammer-on" /\ prev # NoPosition /\ prev.string = position.string
            THEN IF position.fret > prev.fret
                 THEN Played(position.fret, "hammer-on", NoFret) ELSE normal
        ELSE IF selectedTechnique = "pull-off" /\ prev # NoPosition /\ prev.string = position.string
            THEN IF position.fret < prev.fret
                 THEN Played(position.fret, "pull-off", NoFret) ELSE normal
        ELSE IF selectedTechnique = "slide-up"
            THEN IF position.fret >= slideAmount
                 THEN Played(position.fret - slideAmount, "slide-up", position.fret) ELSE normal
        ELSE IF selectedTechnique = "slide-down"
            THEN IF position.fret + slideAmount <= fretRange.max
                 THEN Played(position.fret, "slide-down", position.fret + slideAmount) ELSE normal
        ELSE IF selectedTechnique = "bend"
            THEN IF position.string <= 4 /\ position.fret >= 5
                 THEN Played(position.fret, "bend", position.fret + bendAmount) ELSE normal
        ELSE IF selectedTechnique = "muted"
            THEN Played(position.fret, "muted", NoFret)
        ELSE normal

\* pattern[index + 1] - beatPosition, or beatsPerChord - beatPosition at the end
durationAt(pat, idx) ==
    IF idx < Len(pat) - 1 THEN pat[idx + 2] - pat[idx + 1] ELSE beatsPerChord - pat[idx + 1]

(***************************************************************************)
(* The riff handed to the tab formatter and to the MIDI export, and the    *)
(* values of their variables while another component runs.                 *)
(***************************************************************************)
\* a cell of a tab row without a note (null), and a read outside the row
NullFret == NoFret
UndefinedFret == NoFret - 1
NoRiff == [chordRiffs |-> <<>>, bpm |-> 0]
NoSheet == [measures |-> <<>>, bpm |-> 0, beatsPerMeasure |-> 4]
NoLookup ==
    [op |-> "none", measureIndex |-> 0, subdivisionIndex |-> 0, stringId |-> 0, result |-> NullFret]
TabIdle == riff = NoRiff /\ tabSheet = NoSheet /\ lookup = NoLookup /\ tabPc = "idle"
MidiIdle == volume = 0 /\ midi = <<>> /\ tracksMidi = <<>> /\ midiPc = "idle"
VarLenIdle == varLenValue = 0 /\ varLenBytes = <<>> /\ varLenPc = "idle"

\* a SongAudioEngine as constructed: no AudioContext, no track, nothing
\* scheduled (null is FALSE for ctx and animationFrameId)
NoEngine ==
    [ctx |-> FALSE, trackGains |-> [id \in {} |-> 0], trackMuted |-> [id \in {} |-> FALSE],
     activeNodes |-> <<>>, scheduledEvents |-> <<>>, isPlaying |-> FALSE, startTime |-> 0,
     pauseTime |-> 0, animationFrameId |-> FALSE, onBeatCallback |-> FALSE,
     loopDuration |-> 0, lastScheduledLoop |-> 0 - 1]
NoOp == [op |-> "none", trackId |-> 0]
SongIdle == tracks = <<>> /\ engine = NoEngine /\ currentTime = 0 /\ songPc = NoOp

NoAnalysis == [possibleChords |-> <<>>, uniqueNotes |-> <<>>, noteCount |-> 0]
AnalyzerIdle == selectedNotes = <<>> /\ analysis = NoAnalysis /\ analyzerPc = "idle"

(***************************************************************************)
(* generateProgressionRiff as a state machine: the progression is          *)
(* transposed, then generateChordRiff runs for each chord; its             *)
(* pattern.forEach loop takes one EmitNote per beat of the pattern.  Of    *)
(* the notes array the state keeps its length (notesLength), what the     *)
(* loop reads, the string and fret of the last note (prevNote), and in    *)
(* full the note pushed by the current iteration (pushed) with the locals *)
(* of that iteration (drawn).                                              *)
(***************************************************************************)
RiffIdle ==
    /\ style = "melodic" /\ chordIndex = 0 /\ pattern = <<>> /\ index = 0 /\ notesLength = 0
    /\ prevNote = NoPosition /\ pushed = NoNote /\ drawn = NoDraw /\ riffPc = "idle"

\* the riffs generated: I-IV-V in the key of C in every style, and the jazz
\* minor ii-V-i, which has the diminished chord of the catalog, in the styles
\* without techniques
RiffKeys == {"C"}

RiffProgressions == {"classic145", "jazzMinor"}

InitRiff ==
    /\ progression \in RiffProgressions
    /\ rootNote \in RiffKeys
    /\ style \in RiffStyles
    /\ progression = "jazzMinor" => style # "complex"
    /\ transposed = <<>>
    /\ chordIndex = 0 /\ pattern = <<>> /\ index = 0 /\ notesLength = 0
    /\ prevNote = NoPosition /\ pushed = NoNote /\ drawn = NoDraw
    /\ riffPc = "start"
    /\ root = "C" /\ quality = "major" /\ positions = <<>> /\ triadDone = FALSE
    /\ note = "C" /\ semitones = 0 /\ transposedNote = Undefined /\ scaleOp = "idle"
    /\ TabIdle /\ MidiIdle /\ VarLenIdle /\ SongIdle /\ AnalyzerIdle

chordRoot == transposed[chordIndex + 1].note
chordQuality == transposed[chordIndex + 1].quality
\* transposed[index + 1] || transposed[0]
nextChordRoot ==
    IF chordIndex + 2 <= Len(transposed) THEN transposed[chordIndex + 2].note
    ELSE transposed[1].note

GenerateProgressionRiff ==
    /\ riffPc = "start"
    /\ transposed' = transposeProgression(PROGRESSIONS(progression), rootNote)
    /\ chordIndex' = 0
    /\ riffPc' = IF Len(PROGRESSIONS(progression)) = 0 THEN "done" ELSE "chord"
    /\ UNCHANGED <<progression, rootNote, style, pattern, index, notesLength, prevNote, pushed,
                   drawn, note, semitones, transposedNote, scaleOp, triadVars, tabVars, midiVars, varLenVars, songVars, analyzerVars>>

\* generateChordRiff up to the loop: the pattern is drawn, notes is empty
StartChordRiff ==
    /\ riffPc = "chord"
    /\ \E p \in 1..Min2(MaxPatterns, Len(stylePatterns(style))) :
          pattern' = stylePatterns(style)[p]
    /\ index' = 0
    /\ notesLength' = 0
    /\ prevNote' = NoPosition
    /\ pushed' = NoNote
    /\ drawn' = NoDraw
    /\ riffPc' = "beat"
    /\ UNCHANGED <<progression, rootNote, style, transposed, chordIndex,
                   note, semitones, transposedNote, scaleOp, triadVars, tabVars, midiVars, varLenVars, songVars, analyzerVars>>

\* one iteration of pattern.forEach
EmitNote ==
    /\ riffPc = "beat"
    /\ index < Len(pattern)
    /\ LET beatPosition == pattern[index + 1]
           fretRange == fretRangeOf(style)
       IN  IF beatPosition >= beatsPerChord
           THEN /\ pushed' = NoNote /\ drawn' = NoDraw /\ prevNote' = prevNote
                /\ notesLength' = notesLength
           ELSE \E target \in targetNotes(chordRoot, chordQuality, nextChordRoot, style,
                                          beatPosition, index) :
                  LET found == findNotePosition(target.note, preferredStringsOf(style),
                                                fretRange, prevNote)
                  IN  IF found = {}
                      THEN /\ pushed' = NoNote /\ drawn' = NoDraw /\ prevNote' = prevNote
                           /\ notesLength' = notesLength
                      ELSE \E position \in found :
                           \E selectedTechnique \in
                                  (IF style = "complex"
                                   THEN selectableTechniques[prevNote # NoPosition]
                                   ELSE {Undefined}) :
                           \E slideAmount \in
                                  (IF selectedTechnique \in {"slide-up", "slide-down"}
                                   THEN {2, 3} ELSE {0}) :
                           \E bendAmount \in (IF selectedTechnique = "bend" THEN {1, 2} ELSE {0}) :
                              LET played == applyTechnique(selectedTechnique, position, prevNote,
                                                           fretRange, slideAmount, bendAmount)
                              IN  /\ pushed' = [string |-> position.string,
                                                fret |-> played.fret,
                                                duration |-> Min2(durationAt(pattern, index), BeatUnit),
                                                startBeat |-> beatPosition,
                                                note |-> target.note,
                                                interval |-> target.interval,
                                                technique |-> played.technique,
                                                targetFret |-> played.targetFret]
                                  /\ drawn' = [selectedTechnique |-> selectedTechnique,
                                               slideAmount |-> slideAmount,
                                               position |-> position]
                                  /\ prevNote' = [string |-> position.string, fret |-> played.fret]
                                  /\ notesLength' = notesLength + 1
    /\ riffPc' = "pushed"
    /\ UNCHANGED <<progression, rootNote, style, transposed, chordIndex, pattern, index,
                   note, semitones, transposedNote, scaleOp, triadVars, tabVars, midiVars, varLenVars, songVars, analyzerVars>>

\* forEach moves to the next beat of the pattern
NextBeat ==
    /\ riffPc = "pushed"
    /\ index' = index + 1
    /\ pushed' = NoNote
    /\ drawn' = NoDraw
    /\ riffPc' = IF index + 1 < Len(pattern) THEN "beat" ELSE "return"
    /\ UNCHANGED <<progression, rootNote, style, transposed, chordIndex, pattern, notesLength,
                   prevNote, note, semitones, transposedNote, scaleOp, triadVars, tabVars, midiVars, varLenVars, songVars, analyzerVars>>

\* generateChordRiff returns, chordRiffs.push(riff), next chord
FinishChordRiff ==
    /\ riffPc = "return"
    /\ chordIndex' = chordIndex + 1
    /\ riffPc' = IF chordIndex + 1 < Len(transposed) THEN "chord" ELSE "done"
    /\ pattern' = <<>>
    /\ index' = 0
    /\ prevNote' = NoPosition
    /\ UNCHANGED <<progression, rootNote, style, transposed, notesLength, pushed, drawn,
                   note, semitones, transposedNote, scaleOp, triadVars, tabVars, midiVars, varLenVars, songVars, analyzerVars>>

NextRiff ==
    \/ GenerateProgressionRiff
    \/ StartChordRiff
    \/ EmitNote
    \/ NextBeat
    \/ FinishChordRiff

SpecRiff == InitRiff /\ [][NextRiff]_vars

Spec == SpecRiff

(***************************************************************************)
(* The triad enumerator applied to every root and quality.                 *)
(***************************************************************************)
InitTriad ==
    /\ root \in NoteIds
    /\ quality \in ChordQualities
    /\ positions = <<>>
    /\ triadDone = FALSE
    /\ note = "C" /\ semitones = 0 /\ transposedNote = Undefined
    /\ progression = "classic145" /\ rootNote = "C" /\ transposed = <<>>
    /\ scaleOp = "idle"
    /\ RiffIdle /\ TabIdle /\ MidiIdle /\ VarLenIdle /\ SongIdle /\ AnalyzerIdle

GenerateTriadPositions ==
    /\ ~triadDone
    /\ positions' = generateTriadPositions(root, quality)
    /\ triadDone' = TRUE
    /\ UNCHANGED <<root, quality, scaleVars, riffVars, tabVars, midiVars, varLenVars, songVars, analyzerVars>>

NextTriad == GenerateTriadPositions

SpecTriad == InitTriad /\ [][NextTriad]_vars

(***************************************************************************)
(* The note arithmetic applied to every note, semitone count in the bound, *)
(* and catalog progression.                                                *)
(***************************************************************************)
InitScale ==
    /\ note \in NoteIds
    /\ semitones \in (0 - MaxSemitones)..MaxSemitones
    /\ transposedNote = Undefined
    /\ progression \in ProgressionIds
    /\ rootNote = note
    /\ transposed = <<>>
    /\ scaleOp = "idle"
    /\ root = "C" /\ quality = "major" /\ positions = <<>> /\ triadDone = FALSE
    /\ RiffIdle /\ TabIdle /\ MidiIdle /\ VarLenIdle /\ SongIdle /\ AnalyzerIdle

TransposeNote ==
    /\ scaleOp = "idle"
    /\ transposedNote' = transposeNote(note, semitones)
    /\ scaleOp' = "transposeNote"
    /\ UNCHANGED <<note, semitones, progression, rootNote, transposed, triadVars, riffVars, tabVars, midiVars, varLenVars, songVars, analyzerVars>>

TransposeProgression ==
    /\ scaleOp = "idle"
    /\ transposed' = transposeProgression(PROGRESSIONS(progression), rootNote)
    /\ scaleOp' = "transposeProgression"
    /\ UNCHANGED <<note, semitones, transposedNote, progression, rootNote, triadVars, riffVars, tabVars, midiVars, varLenVars, songVars, analyzerVars>>

NextScale == TransposeNote \/ TransposeProgression

SpecScale == InitScale /\ [][NextScale]_vars

(***************************************************************************)
(* The riff edit operations and the tab formatter.  A riff is edited note  *)
(* by note (addRiffNote, removeRiffNote), riffToTabSheet formats it with   *)
(* the default 8 subdivisions, and a lookup reads the sheet: the state     *)
(* that holds its result is an observation, left without a successor.      *)
(***************************************************************************)
\* a riff holds at most MaxNotes notes
MaxNotes == 2

RiffNote(stringId, fret, duration, startBeat, n, technique) ==
    [string |-> stringId, fret |-> fret, duration |-> duration, startBeat |-> startBeat,
     note |-> n, interval |-> Undefined, technique |-> technique, targetFret |-> NoFret]

ChordRiff(chord, notes) ==
    [chordRoot |-> chord.note, chordQuality |-> chord.quality, chordDegree |-> chord.degree,
     notes |-> notes, totalBeats |-> 4]

\* the chords of I-IV-V in C
RiffChords == transposeProgression(PROGRESSIONS("classic145"), "C")

\* the riff of the first n chords of I-IV-V in C at 120 bpm, without notes
emptyRiff(n) == [chordRiffs |-> [i \in 1..n |-> ChordRiff(RiffChords[i], <<>>)], bpm |-> 120]

RiffLengths == 0..2

\* [...notes].sort((a, b) => a.startBeat - b.startBeat), a stable sort
sortByStartBeat(ns) ==
    LET before(i) == {j \in 1..Len(ns) :
                        \/ ns[j].startBeat < ns[i].startBeat
                        \/ (ns[j].startBeat = ns[i].startBeat /\ j < i)}
    IN  [k \in 1..Len(ns) |-> ns[CHOOSE i \in 1..Len(ns) : Cardinality(before(i)) = k - 1]]

\* measureIndex counts from 0; the new note lasts half a beat
addRiffNote(rf, measureIndex, stringId, fret, startBeat, n) ==
    LET chordRiff == rf.chordRiffs[measureIndex + 1]
        newNote == RiffNote(stringId, fret, BeatUnit \div 2, startBeat, n, Undefined)
    IN  [rf EXCEPT !.chordRiffs[measureIndex + 1].notes =
                        sortByStartBeat(Append(chordRiff.notes, newNote))]

\* removeRiffNote for the id of the k-th note of the measure (ids are unique)
removeRiffNote(rf, measureIndex, k) ==
    LET notes == rf.chordRiffs[measureIndex + 1].notes
    IN  [rf EXCEPT !.chordRiffs[measureIndex + 1].notes =
                        SubSeq(notes, 1, k - 1) \o SubSeq(notes, k + 1, Len(notes))]

RECURSIVE countNotes(_, _)
countNotes(rf, m) ==
    IF m = 0 THEN 0 ELSE countNotes(rf, m - 1) + Len(rf.chordRiffs[m].notes)

\* Math.round in place of Math.floor
subdivisionIndexRounded(n, chordRiff, subdivisions) ==
    (2 * n.startBeat * subdivisions + BeatUnit * chordRiff.totalBeats)
        \div (2 * BeatUnit * chordRiff.totalBeats)

\* Math.floor(note.startBeat * (subdivisions / chordRiff.totalBeats)), the
\* start beat being counted in quarter beats
subdivisionIndex(n, chordRiff, subdivisions) ==
    (n.startBeat * subdivisions) \div (BeatUnit * chordRiff.totalBeats)

RECURSIVE placeNotes(_, _, _, _)
placeNotes(rows, chordRiff, subdivisions, k) ==
    IF k > Len(chordRiff.notes) THEN rows
    ELSE LET n == chordRiff.notes[k]
             idx == subdivisionIndex(n, chordRiff, subdivisions)
         IN  placeNotes(IF idx >= 0 /\ idx < subdivisions
                        THEN [rows EXCEPT ![n.string][idx + 1] = n.fret]
                        ELSE rows,
                        chordRiff, subdivisions, k + 1)

formatTabMeasure(chordRiff, subdivisions) ==
    LET empty == [stringId \in SeqToSet(GUITAR_STRINGS) |-> [i \in 1..subdivisions |-> NullFret]]
    IN  [chordRoot |-> chordRiff.chordRoot,
         chordDegree |-> chordRiff.chordDegree,
         positions |-> placeNotes(empty, chordRiff, subdivisions, 1),
         subdivisions |-> subdivisions]

riffToTabSheet(rf, subdivisions) ==
    [measures |-> [i \in 1..Len(rf.chordRiffs) |-> formatTabMeasure(rf.chordRiffs[i], subdivisions)],
     bpm |-> rf.bpm,
     beatsPerMeasure |-> 4]

\* array[i] of a row of frets, i counted from 0: undefined outside the array
fretAt(row, i) == IF i >= 0 /\ i < Len(row) THEN row[i + 1] ELSE UndefinedFret

\* tabSheet.measures[measureIndex] is undefined outside the array
hasMeasure(sheet, measureIndex) == measureIndex >= 0 /\ measureIndex < Len(sheet.measures)

\* positions[subdivisionIndex] ?? null
getNoteAtPosition(sheet, measureIndex, subdivisionIndex_, stringId) ==
    IF ~hasMeasure(sheet, measureIndex) THEN NullFret
    ELSE LET fret == fretAt(sheet.measures[measureIndex + 1].positions[stringId], subdivisionIndex_)
         IN  IF fret = UndefinedFret \/ fret = NullFret THEN NullFret ELSE fret

\* GUITAR_STRINGS.some(stringId => measure.positions[stringId][subdivisionIndex] !== null)
hasNotesAtSubdivision(sheet, measureIndex, subdivisionIndex_) ==
    IF ~hasMeasure(sheet, measureIndex) THEN FALSE
    ELSE \E stringId \in SeqToSet(GUITAR_STRINGS) :
            fretAt(sheet.measures[measureIndex + 1].positions[stringId], subdivisionIndex_)
                # NullFret

\* the strings, frets and start beats (in quarter beats) of the notes added
EditStrings == {5, 6}
EditFrets == {3, 5}
EditBeats == {0, 1, 8, 16}
\* the indices looked up, inside and outside the sheet
LookupMeasures == {0 - 1, 0, 2}
LookupSubdivisions == {0 - 1, 0, 8}
LookupStrings == {5, 6}

InitTab ==
    /\ riff \in {emptyRiff(n) : n \in RiffLengths}
    /\ tabSheet = NoSheet
    /\ lookup = NoLookup
    /\ tabPc = "riff"
    /\ root = "C" /\ quality = "major" /\ positions = <<>> /\ triadDone = FALSE
    /\ note = "C" /\ semitones = 0 /\ transposedNote = Undefined
    /\ progression = "classic145" /\ rootNote = "C" /\ transposed = <<>>
    /\ scaleOp = "idle"
    /\ RiffIdle /\ MidiIdle /\ VarLenIdle /\ SongIdle /\ AnalyzerIdle

AddRiffNote ==
    /\ tabPc \in {"riff", "tab"}
    /\ lookup = NoLookup
    /\ countNotes(riff, Len(riff.chordRiffs)) < MaxNotes
    /\ \E measureIndex \in 0..(Len(riff.chordRiffs) - 1), stringId \in EditStrings,
          fret \in EditFrets, startBeat \in EditBeats :
          riff' = addRiffNote(riff, measureIndex, stringId, fret, startBeat,
                              INDEX_TO_NOTE((STRING_TUNINGS(stringId).index + fret) % 12))
    /\ tabSheet' = NoSheet
    /\ lookup' = NoLookup
    /\ tabPc' = "riff"
    /\ UNCHANGED <<triadVars, scaleVars, riffVars, midiVars, varLenVars, songVars, analyzerVars>>

RemoveRiffNote ==
    /\ tabPc \in {"riff", "tab"}
    /\ lookup = NoLookup
    /\ \E measureIndex \in 0..(Len(riff.chordRiffs) - 1) :
       \E k \in 1..Len(riff.chordRiffs[measureIndex + 1].notes) :
          riff' = removeRiffNote(riff, measureIndex, k)
    /\ tabSheet' = NoSheet
    /\ lookup' = NoLookup
    /\ tabPc' = "riff"
    /\ UNCHANGED <<triadVars, scaleVars, riffVars, midiVars, varLenVars, songVars, analyzerVars>>

RiffToTabSheet ==
    /\ tabPc = "riff"
    /\ tabSheet' = riffToTabSheet(riff, 8)
    /\ tabPc' = "tab"
    /\ UNCHANGED <<riff, lookup, triadVars, scaleVars, riffVars, midiVars, varLenVars, songVars, analyzerVars>>

GetNoteAtPosition ==
    /\ tabPc = "tab"
    /\ lookup = NoLookup
    /\ \E measureIndex \in LookupMeasures, sub \in LookupSubdivisions, stringId \in LookupStrings :
          lookup' = [op |-> "getNoteAtPosition", measureIndex |-> measureIndex,
                     subdivisionIndex |-> sub, stringId |-> stringId,
                     result |-> getNoteAtPosition(tabSheet, measureIndex, sub, stringId)]
    /\ UNCHANGED <<riff, tabSheet, tabPc, triadVars, scaleVars, riffVars, midiVars, varLenVars, songVars, analyzerVars>>

HasNotesAtSubdivision ==
    /\ tabPc = "tab"
    /\ lookup = NoLookup
    /\ \E measureIndex \in LookupMeasures, sub \in LookupSubdivisions :
          lookup' = [op |-> "hasNotesAtSubdivision", measureIndex |-> measureIndex,
                     subdivisionIndex |-> sub, stringId |-> 0,
                     result |-> hasNotesAtSubdivision(tabSheet, measureIndex, sub)]
    /\ UNCHANGED <<riff, tabSheet, tabPc, triadVars, scaleVars, riffVars, midiVars, varLenVars, songVars, analyzerVars>>

NextTab ==
    \/ AddRiffNote
    \/ RemoveRiffNote
    \/ RiffToTabSheet
    \/ GetNoteAtPosition
    \/ HasNotesAtSubdivision

SpecTab == InitTab /\ [][NextTab]_vars

(***************************************************************************)
(* The MIDI export.  Bytes are numbers in 0..255; a riff is exported by    *)
(* exportRiffToMidi and then, as the riff of a single riff track, by       *)
(* exportTracksToMidi.  Ticks are exact: a quarter beat is 120 ticks.      *)
(***************************************************************************)
TICKS_PER_BEAT == 480

\* Math.round(a / b) for a >= 0, b > 0
roundDiv(a, b) == (2 * a + b) \div (2 * b)

\* v & 0x7f is v % 128 and v >> 7 is v \div 128, for negative v as well
RECURSIVE varLenFrom(_, _)
varLenFrom(v, bytes) ==
    IF v > 0 THEN varLenFrom(v \div 128, <<(v % 128) + 128>> \o bytes) ELSE bytes

\* bytes.push in place of bytes.unshift: the low 7 bits come first
RECURSIVE varLenPushedFrom(_, _)
varLenPushedFrom(v, bytes) ==
    IF v > 0 THEN varLenPushedFrom(v \div 128, bytes \o <<(v % 128) + 128>>) ELSE bytes

writeVarLenPushed(value) == varLenPushedFrom(value \div 128, <<value % 128>>)

writeVarLen(value) == varLenFrom(value \div 128, <<value % 128>>)

writeInt16(value) == <<(value \div 256) % 256, value % 256>>

writeInt32(value) ==
    <<(value \div 16777216) % 256, (value \div 65536) % 256, (value \div 256) % 256,
      value % 256>>

\* the pitch class index of the open string in place of its MIDI number
fretToMidiFromIndex(stringId, fret) == STRING_TUNINGS(stringId).index + fret

fretToMidi(stringId, fret) == STRING_TUNINGS(stringId).midi + fret

RECURSIVE flatten(_, _)
flatten(events, k) == IF k > Len(events) THEN <<>> ELSE events[k] \o flatten(events, k + 1)

\* the length is taken before the end-of-track event is added
createTrackChunkShortLength(events) ==
    LET data == flatten(events, 1)
        trackData == data \o writeVarLen(0) \o <<255, 47, 0>>
    IN  <<77, 84, 114, 107>> \o writeInt32(Len(data)) \o trackData

createTrackChunk(events) ==
    LET trackData == flatten(events, 1) \o writeVarLen(0) \o <<255, 47, 0>>
    IN  <<77, 84, 114, 107>> \o writeInt32(Len(trackData)) \o trackData

createTempoEvent(bpm) ==
    LET microsecondsPerBeat == roundDiv(60000000, bpm)
    IN  writeVarLen(0) \o <<255, 81, 3>>
            \o <<(microsecondsPerBeat \div 65536) % 256, (microsecondsPerBeat \div 256) % 256,
                 microsecondsPerBeat % 256>>

\* the name is given by its character codes
createTrackNameEvent(nameBytes) == writeVarLen(0) \o <<255, 3, Len(nameBytes)>> \o nameBytes

createNoteOn(deltaTime, channel, n, velocity) ==
    writeVarLen(deltaTime) \o <<144 + (channel % 16), n % 128, velocity % 128>>

createNoteOff(deltaTime, channel, n) ==
    writeVarLen(deltaTime) \o <<128 + (channel % 16), n % 128, 0>>

\* 'Guitar Riff', 'Tempo Track', 'Riff 1'
GuitarRiffName == <<71, 117, 105, 116, 97, 114, 32, 82, 105, 102, 102>>
TempoTrackName == <<84, 101, 109, 112, 111, 32, 84, 114, 97, 99, 107>>
RiffTrackName == <<82, 105, 102, 102, 32, 49>>

NoteEvent(time, type, n, velocity) ==
    [time |-> time, type |-> type, note |-> n, velocity |-> velocity]

\* velocity of exportRiffToMidi
riffVelocity(technique) ==
    IF technique = "hammer-on" \/ technique = "pull-off" THEN 80
    ELSE IF technique = "muted" THEN 60
    ELSE IF technique = "harmonic" THEN 90
    ELSE 100

\* velocity of a riff track of exportTracksToMidi, the volume in hundredths
trackVelocity(technique, vol) ==
    LET velocity == roundDiv(vol * 100, 100)
    IN  IF technique = "hammer-on" \/ technique = "pull-off" THEN roundDiv(velocity * 8, 10)
        ELSE IF technique = "muted" THEN roundDiv(velocity * 6, 10)
        ELSE velocity

\* the note-on and note-off of the notes of measure m (from 1), from note k on
RECURSIVE measureEvents(_, _, _, _, _)
measureEvents(chordRiff, m, k, vol, ofTrack) ==
    IF k > Len(chordRiff.notes) THEN <<>>
    ELSE LET n == chordRiff.notes[k]
             measureStartTick == (m - 1) * TICKS_PER_BEAT * 4
             midiNote == fretToMidi(n.string, n.fret)
             startTick == measureStartTick + (n.startBeat * TICKS_PER_BEAT) \div BeatUnit
             endTick == startTick + (n.duration * TICKS_PER_BEAT) \div BeatUnit
             velocity == IF ofTrack THEN trackVelocity(n.technique, vol)
                         ELSE riffVelocity(n.technique)
         IN  <<NoteEvent(startTick, "on", midiNote, velocity),
               NoteEvent(endTick, "off", midiNote, 0)>>
                 \o measureEvents(chordRiff, m, k + 1, vol, ofTrack)

RECURSIVE collectNoteEvents(_, _, _, _)
collectNoteEvents(rf, m, vol, ofTrack) ==
    IF m > Len(rf.chordRiffs) THEN <<>>
    ELSE measureEvents(rf.chordRiffs[m], m, 1, vol, ofTrack)
            \o collectNoteEvents(rf, m + 1, vol, ofTrack)

\* the comparator sorts by time only
eventBeforeByTime(a, b) == a.time < b.time

\* the comparator of noteEvents.sort: by time, note-offs before note-ons
eventBefore(a, b) ==
    \/ a.time < b.time
    \/ (a.time = b.time /\ a.type = "off" /\ b.type = "on")

\* noteEvents.sort, a stable sort
sortNoteEvents(es) ==
    LET before(i) == {j \in 1..Len(es) :
                        \/ eventBefore(es[j], es[i])
                        \/ (~eventBefore(es[i], es[j]) /\ j < i)}
    IN  [k \in 1..Len(es) |-> es[CHOOSE i \in 1..Len(es) : Cardinality(before(i)) = k - 1]]

\* the delta-time loop: one MIDI event per note event
RECURSIVE encodeNoteEvents(_, _, _, _)
encodeNoteEvents(es, k, lastTime, channel) ==
    IF k > Len(es) THEN <<>>
    ELSE LET deltaTime == es[k].time - lastTime
         IN  <<IF es[k].type = "on"
               THEN createNoteOn(deltaTime, channel, es[k].note, es[k].velocity)
               ELSE createNoteOff(deltaTime, channel, es[k].note)>>
                 \o encodeNoteEvents(es, k + 1, es[k].time, channel)

exportRiffToMidi(rf) ==
    LET noteEvents == sortNoteEvents(collectNoteEvents(rf, 1, 0, FALSE))
        events == <<createTrackNameEvent(GuitarRiffName), createTempoEvent(rf.bpm)>>
                      \o encodeNoteEvents(noteEvents, 1, 0, 0)
        header == <<77, 84, 104, 100>> \o writeInt32(6) \o writeInt16(0) \o writeInt16(1)
                      \o writeInt16(TICKS_PER_BEAT)
    IN  header \o createTrackChunk(events)

Track(nameBytes, rf, vol) == [name |-> nameBytes, type |-> "riff", riff |-> rf, volume |-> vol]

\* the chunk of the track of index trackIndex (from 0), a riff track
riffTrackChunk(track, trackIndex) ==
    LET channel == trackIndex % 16
        noteEvents == sortNoteEvents(collectNoteEvents(track.riff, 1, track.volume, TRUE))
    IN  createTrackChunk(<<createTrackNameEvent(track.name)>>
                             \o encodeNoteEvents(noteEvents, 1, 0, channel))

RECURSIVE trackChunksFrom(_, _)
trackChunksFrom(tracks_, k) ==
    IF k > Len(tracks_) THEN <<>>
    ELSE riffTrackChunk(tracks_[k], k - 1) \o trackChunksFrom(tracks_, k + 1)

exportTracksToMidi(tracks_, bpm) ==
    LET tempoTrack == createTrackChunk(<<createTrackNameEvent(TempoTrackName),
                                         createTempoEvent(bpm)>>)
        header == <<77, 84, 104, 100>> \o writeInt32(6) \o writeInt16(1)
                      \o writeInt16(1 + Len(tracks_)) \o writeInt16(TICKS_PER_BEAT)
    IN  header \o tempoTrack \o trackChunksFrom(tracks_, 1)

\* the notes of the exported riffs: strings 6 and 1 at fret 3, a note of one
\* beat on beat 0 or a note on beat 1 that ends on beat 0 (the duration -1 of
\* the pattern [0, 1, 2, 3, 2, 1]), with and without technique
MidiNotes ==
    {RiffNote(stringId, 3, timing[2], timing[1],
              INDEX_TO_NOTE((STRING_TUNINGS(stringId).index + 3) % 12), technique) :
        stringId \in {6, 1}, timing \in {<<0, 4>>, <<4, 0 - 4>>},
        technique \in {Undefined, "hammer-on", "muted", "harmonic"}}

RECURSIVE sumCounts(_, _)
sumCounts(counts, m) == IF m = 0 THEN 0 ELSE sumCounts(counts, m - 1) + counts[m]

\* the numbers of notes of n measures that hold k notes at most together
noteCounts(n, k) == {counts \in [1..n -> 0..k] : sumCounts(counts, n) <= k}

\* the riff of n measures whose notes are those of the list, counts[m] of
\* them in measure m
riffOfNotes(n, counts, notes) ==
    [chordRiffs |->
        [m \in 1..n |->
            ChordRiff(RiffChords[m],
                      SubSeq(notes, sumCounts(counts, m - 1) + 1, sumCounts(counts, m)))],
     bpm |-> 120]

\* track volumes, in hundredths
Volumes == {70, 100}

InitMidi ==
    /\ \E n \in RiffLengths :
       \E counts \in noteCounts(n, MaxNotes) :
       \E notes \in [1..sumCounts(counts, n) -> MidiNotes] :
          riff = riffOfNotes(n, counts, notes)
    /\ volume = 0 /\ midi = <<>> /\ tracksMidi = <<>>
    /\ midiPc = "riff"
    /\ tabSheet = NoSheet /\ lookup = NoLookup /\ tabPc = "idle"
    /\ root = "C" /\ quality = "major" /\ positions = <<>> /\ triadDone = FALSE
    /\ note = "C" /\ semitones = 0 /\ transposedNote = Undefined
    /\ progression = "classic145" /\ rootNote = "C" /\ transposed = <<>>
    /\ scaleOp = "idle"
    /\ RiffIdle /\ VarLenIdle /\ SongIdle /\ AnalyzerIdle

ExportRiffToMidi ==
    /\ midiPc = "riff"
    /\ midi' = exportRiffToMidi(riff)
    /\ midiPc' = "exported"
    /\ UNCHANGED <<riff, tabSheet, lookup, tabPc, volume, tracksMidi,
                   triadVars, scaleVars, riffVars, varLenVars, songVars, analyzerVars>>

\* the riff as the one riff track of the song, at some volume
ExportTracksToMidi ==
    /\ midiPc = "exported"
    /\ \E vol \in Volumes :
          /\ volume' = vol
          /\ tracksMidi' = exportTracksToMidi(<<Track(RiffTrackName, riff, vol)>>, riff.bpm)
    /\ midiPc' = "tracks"
    /\ UNCHANGED <<riff, tabSheet, lookup, tabPc, midi, triadVars, scaleVars, riffVars,
                   varLenVars, songVars, analyzerVars>>

NextMidi == ExportRiffToMidi \/ ExportTracksToMidi

SpecMidi == InitMidi /\ [][NextMidi]_vars

(***************************************************************************)
(* writeVarLen on its own: a value is drawn and encoded.                   *)
(***************************************************************************)
\* the values encoded: around every power of two up to 2^28, and the ticks
\* of the beats of 64 measures
VarLenValues ==
    {2^k + d : k \in 0..28, d \in {0 - 1, 0, 1}} \cup {TICKS_PER_BEAT * b : b \in 0..256}

InitVarLen ==
    /\ varLenValue \in VarLenValues
    /\ varLenBytes = <<>>
    /\ varLenPc = "value"
    /\ root = "C" /\ quality = "major" /\ positions = <<>> /\ triadDone = FALSE
    /\ note = "C" /\ semitones = 0 /\ transposedNote = Undefined
    /\ progression = "classic145" /\ rootNote = "C" /\ transposed = <<>>
    /\ scaleOp = "idle"
    /\ RiffIdle /\ TabIdle /\ MidiIdle /\ SongIdle /\ AnalyzerIdle

WriteVarLen ==
    /\ varLenPc = "value"
    /\ varLenBytes' = writeVarLen(varLenValue)
    /\ varLenPc' = "written"
    /\ UNCHANGED <<varLenValue, triadVars, scaleVars, riffVars, tabVars, midiVars, songVars,
                   analyzerVars>>

NextVarLen == WriteVarLen

SpecVarLen == InitVarLen /\ [][NextVarLen]_vars

(***************************************************************************)
(* audio/songEngine.ts and the mixer handlers of                           *)
(* components/SongBuilderPanel.tsx.  engine is the SongAudioEngine of the  *)
(* panel, tracks the panel's track list, riff and tabSheet the panel's     *)
(* riff and its tab sheet, currentTime the clock of the AudioContext.      *)
(* Times are in tenths of a second, gains and volumes in hundredths.       *)
(* songPc is the last operation: a call on the engine, the muting of a     *)
(* track (with the track), or another handler of the mixer.                *)
(***************************************************************************)
\* the panel holds at most MaxTracks tracks
MaxTracks == 2
\* the clock of the AudioContext runs up to MaxTime
MaxTime == 20

\* Map.set and Map.delete
mapSet(m, k, v) == [i \in (DOMAIN m) \cup {k} |-> IF i = k THEN v ELSE m[i]]
mapDelete(m, k) == [i \in (DOMAIN m) \ {k} |-> m[i]]

\* the master gain and the two legacy gains are created with the context
ensureContext(e) == [e EXCEPT !.ctx = TRUE]

createTrackAudio(e, trackId, vol) ==
    LET c == ensureContext(e)
    IN  IF trackId \in DOMAIN c.trackGains
        THEN [c EXCEPT !.trackGains = mapSet(c.trackGains, trackId, vol)]
        ELSE [c EXCEPT !.trackGains = mapSet(c.trackGains, trackId, vol),
                       !.trackMuted = mapSet(c.trackMuted, trackId, FALSE)]

removeTrackAudio(e, trackId) ==
    IF trackId \in DOMAIN e.trackGains
    THEN [e EXCEPT !.trackGains = mapDelete(e.trackGains, trackId),
                   !.trackMuted = mapDelete(e.trackMuted, trackId)]
    ELSE e

setTrackVolume(e, trackId, vol) ==
    IF trackId \in DOMAIN e.trackGains
    THEN [e EXCEPT !.trackGains = mapSet(e.trackGains, trackId, vol)]
    ELSE e

\* the gain is set to 0 when muted is true and left as it is otherwise
setTrackMuted(e, trackId, muted) ==
    LET m == [e EXCEPT !.trackMuted = mapSet(e.trackMuted, trackId, muted)]
    IN  IF trackId \in DOMAIN m.trackGains /\ muted
        THEN [m EXCEPT !.trackGains = mapSet(m.trackGains, trackId, 0)]
        ELSE m

\* the gain updateSoloState gives a track
soloGain(track, anySoloed) ==
    IF anySoloed
    THEN IF track.isSoloed /\ ~track.isMuted THEN track.volume ELSE 0
    ELSE IF track.isMuted THEN 0 ELSE track.volume

\* tracks.forEach of updateSoloState, from the k-th track on
RECURSIVE updateSoloStateFrom(_, _, _, _)
updateSoloStateFrom(e, tracks_, k, anySoloed) ==
    IF k > Len(tracks_) THEN e
    ELSE updateSoloStateFrom(
             IF tracks_[k].id \in DOMAIN e.trackGains
             THEN [e EXCEPT !.trackGains =
                       mapSet(e.trackGains, tracks_[k].id, soloGain(tracks_[k], anySoloed))]
             ELSE e,
             tracks_, k + 1, anySoloed)

updateSoloState(e, tracks_) ==
    updateSoloStateFrom(e, tracks_, 1, \E k \in 1..Len(tracks_) : tracks_[k].isSoloed)

\* 60 / bpm seconds, in tenths of a second (exact at the tempo of EngineRiffs,
\* where a quarter beat lasts a tenth of a second)
secondsPerBeat(bpm) == 600 \div bpm

\* event.trackId.startsWith('_legacy'): the events of the single-track mode
LegacyTrack == 0

NoteToPlay(n) ==
    [string |-> n.string, fret |-> n.fret, technique |-> n.technique, targetFret |-> n.targetFret]

ScheduledEvent(type, trackId, time, notes, duration) ==
    [type |-> type, trackId |-> trackId, time |-> time, notes |-> notes, duration |-> duration]

\* buildChordShapes(root, quality)[0]: of the voicing the model keeps one
\* note, the root on string 6
getChordShape(r, q) ==
    [notesForAudio |->
        <<[string |-> 6, fret |-> (NOTE_TO_INDEX(r) + 12 - STRING_TUNINGS(6).index) % 12,
           technique |-> Undefined, targetFret |-> NoFret]>>]

\* chordRiff.notes.forEach: the riff events of a measure that starts at time at
riffEvents(chordRiff, trackId, at, bpm) ==
    [k \in 1..Len(chordRiff.notes) |->
        ScheduledEvent("riff", trackId,
                       at + (chordRiff.notes[k].startBeat * secondsPerBeat(bpm)) \div BeatUnit,
                       <<NoteToPlay(chordRiff.notes[k])>>,
                       (chordRiff.notes[k].duration * secondsPerBeat(bpm)) \div BeatUnit)]

\* riff.chordRiffs.forEach of scheduleProgression, from measure m on
RECURSIVE progressionEvents(_, _)
progressionEvents(rf, m) ==
    IF m > Len(rf.chordRiffs) THEN <<>>
    ELSE LET chordRiff == rf.chordRiffs[m]
             secondsPerMeasure == 4 * secondsPerBeat(rf.bpm)
             at == (m - 1) * secondsPerMeasure
         IN  <<ScheduledEvent("chord", LegacyTrack, at,
                              getChordShape(chordRiff.chordRoot, chordRiff.chordQuality).notesForAudio,
                              secondsPerMeasure)>>
                 \o riffEvents(chordRiff, LegacyTrack, at, rf.bpm)
                 \o progressionEvents(rf, m + 1)

scheduleProgression(e, rf) ==
    [ensureContext(e) EXCEPT
        !.scheduledEvents = progressionEvents(rf, 1),
        !.loopDuration = Len(rf.chordRiffs) * 4 * secondsPerBeat(rf.bpm)]

\* track.riff.chordRiffs.forEach of scheduleAllTracks for a riff track
RECURSIVE trackEvents(_, _, _)
trackEvents(track, m, bpm) ==
    IF m > Len(track.riff.chordRiffs) THEN <<>>
    ELSE riffEvents(track.riff.chordRiffs[m], track.id, (m - 1) * 4 * secondsPerBeat(bpm), bpm)
             \o trackEvents(track, m + 1, bpm)

\* tracks.forEach of scheduleAllTracks, from the k-th track on
RECURSIVE scheduleAllTracksFrom(_, _, _, _)
scheduleAllTracksFrom(e, tracks_, k, bpm) ==
    IF k > Len(tracks_) THEN e
    ELSE LET created == createTrackAudio(e, tracks_[k].id, tracks_[k].volume)
             duration == Len(tracks_[k].riff.chordRiffs) * 4 * secondsPerBeat(bpm)
         IN  scheduleAllTracksFrom(
                 [created EXCEPT
                     !.scheduledEvents = created.scheduledEvents \o trackEvents(tracks_[k], 1, bpm),
                     !.loopDuration = Max2(created.loopDuration, duration)],
                 tracks_, k + 1, bpm)

scheduleAllTracks(e, tracks_, bpm) ==
    scheduleAllTracksFrom([ensureContext(e) EXCEPT !.scheduledEvents = <<>>, !.loopDuration = 0],
                          tracks_, 1, bpm)

\* the oscillator pushed on activeNodes for a note
ActiveNode(time, type, trackId, n) ==
    [time |-> time, type |-> type, trackId |-> trackId, string |-> n.string, fret |-> n.fret]

\* trackId ? this.trackGains.get(trackId) : the legacy gain
hasTargetGain(e, trackId) == trackId = LegacyTrack \/ trackId \in DOMAIN e.trackGains

\* scheduleChord: one oscillator per note of the shape (the strum delay of
\* 0.025 s per note is below the time unit)
scheduleChord(e, notes, startTime, duration, trackId) ==
    IF ~hasTargetGain(e, trackId) THEN e
    ELSE [e EXCEPT !.activeNodes =
             e.activeNodes \o [k \in 1..Len(notes) |-> ActiveNode(startTime, "chord", trackId, notes[k])]]

\* scheduleRiffNote: a muted note is a buffer source, which is not kept in
\* activeNodes; every other technique pushes its oscillator
scheduleRiffNote(e, n, startTime, duration, trackId) ==
    IF ~hasTargetGain(e, trackId) \/ n.technique = "muted" THEN e
    ELSE [e EXCEPT !.activeNodes = Append(e.activeNodes, ActiveNode(startTime, "riff", trackId, n))]

\* event.notes.forEach of scheduleLoopEvents, from the k-th note on
RECURSIVE scheduleRiffNotesFrom(_, _, _, _)
scheduleRiffNotesFrom(e, event, k, eventTime) ==
    IF k > Len(event.notes) THEN e
    ELSE scheduleRiffNotesFrom(
             scheduleRiffNote(e, event.notes[k], eventTime, event.duration, event.trackId),
             event, k + 1, eventTime)

\* 0.1 s: events up to that much in the past are still scheduled
scheduleMargin == 1

\* scheduledEvents.forEach of scheduleLoopEvents, from the k-th event on; now
\* is ctx.currentTime
RECURSIVE scheduleLoopEventsFrom(_, _, _, _)
scheduleLoopEventsFrom(e, loopIndex, k, now) ==
    IF k > Len(e.scheduledEvents) THEN e
    ELSE LET event == e.scheduledEvents[k]
             loopStartTime == e.startTime + loopIndex * e.loopDuration
             eventTime == loopStartTime + event.time
         IN  scheduleLoopEventsFrom(
                 IF eventTime >= now - scheduleMargin
                 THEN IF event.type = "chord"
                      THEN scheduleChord(e, event.notes, eventTime, event.duration, event.trackId)
                      ELSE scheduleRiffNotesFrom(e, event, 1, eventTime)
                 ELSE e,
                 loopIndex, k + 1, now)

scheduleLoopEvents(e, loopIndex, now) ==
    IF ~e.ctx THEN e ELSE scheduleLoopEventsFrom(e, loopIndex, 1, now)

\* the update closure of startBeatTracking, run at time now:
\* totalSubdivisions / totalSubdivisionsPerLoop is elapsed over the duration
\* of the measures of the tab sheet
update(e, bpm, sheet, now) ==
    IF ~e.isPlaying \/ ~e.ctx THEN e
    ELSE LET elapsed == now - e.startTime
             currentLoop == elapsed \div (Len(sheet.measures) * 4 * secondsPerBeat(bpm))
             scheduled ==
                 IF currentLoop > e.lastScheduledLoop
                 THEN scheduleLoopEvents([e EXCEPT !.lastScheduledLoop = currentLoop],
                                         currentLoop + 1, now)
                 ELSE e
         IN  [scheduled EXCEPT !.animationFrameId = TRUE]

startBeatTracking(e, bpm, sheet, now) ==
    IF ~e.ctx \/ ~e.onBeatCallback THEN e ELSE update(e, bpm, sheet, now)

pause(e, now) ==
    IF ~e.ctx \/ ~e.isPlaying THEN e
    ELSE [e EXCEPT !.pauseTime = now - e.startTime,
                   !.isPlaying = FALSE,
                   !.animationFrameId = FALSE,
                   !.activeNodes = <<>>]

stop(e, now) ==
    [pause(e, now) EXCEPT !.pauseTime = 0, !.scheduledEvents = <<>>, !.lastScheduledLoop = 0 - 1]

\* startTime is set to the clock, without the paused offset
playFromNow(e, rf, sheet, now) ==
    LET paused == IF ensureContext(e).isPlaying THEN pause(ensureContext(e), now)
                  ELSE ensureContext(e)
        scheduled == scheduleProgression(paused, rf)
        started == [scheduled EXCEPT !.startTime = now,
                                     !.isPlaying = TRUE,
                                     !.lastScheduledLoop = 0 - 1]
    IN  startBeatTracking(scheduleLoopEvents(started, 0, now), rf.bpm, sheet, now)

play(e, rf, sheet, now) ==
    LET paused == IF ensureContext(e).isPlaying THEN pause(ensureContext(e), now)
                  ELSE ensureContext(e)
        scheduled == scheduleProgression(paused, rf)
        playbackOffset == scheduled.pauseTime
        started == [scheduled EXCEPT !.startTime = now - playbackOffset,
                                     !.isPlaying = TRUE,
                                     !.lastScheduledLoop = 0 - 1]
    IN  startBeatTracking(scheduleLoopEvents(started, 0, now), rf.bpm, sheet, now)

playAllTracks(e, tracks_, sheet, bpm, now) ==
    LET paused == IF ensureContext(e).isPlaying THEN pause(ensureContext(e), now)
                  ELSE ensureContext(e)
        scheduled == updateSoloState(scheduleAllTracks(paused, tracks_, bpm), tracks_)
        playbackOffset == scheduled.pauseTime
        started == [scheduled EXCEPT !.startTime = now - playbackOffset,
                                     !.isPlaying = TRUE,
                                     !.lastScheduledLoop = 0 - 1]
    IN  startBeatTracking(scheduleLoopEvents(started, 0, now), bpm, sheet, now)

getIsPlaying(e) == e.isPlaying

getCurrentTime(e, now) ==
    IF ~e.ctx THEN 0 ELSE IF e.isPlaying THEN now - e.startTime ELSE e.pauseTime

\* the riffs of the panel: one measure at 150 bpm with a note on beat 0, on
\* beat 2, on both, or (once its notes are removed) without note
SongNotes ==
    <<RiffNote(6, 3, BeatUnit, 0, "G", Undefined),
      RiffNote(1, 3, BeatUnit, 2 * BeatUnit, "G", Undefined)>>

songRiff(notes) == [chordRiffs |-> <<ChordRiff(RiffChords[1], notes)>>, bpm |-> 150]

SongRiffs ==
    {songRiff(notes) : notes \in {SongNotes, SubSeq(SongNotes, 1, 1), SubSeq(SongNotes, 2, 2)}}

\* volume: 0.7 of a new track
DefaultVolume == 70
\* the values the volume slider of a track is moved to
MixerVolumes == {40, 70}

\* the engine of the panel once mounted: onBeat has set the callback
MountedEngine == [NoEngine EXCEPT !.onBeatCallback = TRUE]

\* the panel with the riff rf, before any track is added
InitSong(rf) ==
    /\ riff = rf
    /\ tabSheet = riffToTabSheet(riff, 8)
    /\ lookup = NoLookup /\ tabPc = "idle"
    /\ tracks = <<>>
    /\ engine = MountedEngine
    /\ currentTime = 0
    /\ songPc = NoOp
    /\ root = "C" /\ quality = "major" /\ positions = <<>> /\ triadDone = FALSE
    /\ note = "C" /\ semitones = 0 /\ transposedNote = Undefined
    /\ progression = "classic145" /\ rootNote = "C" /\ transposed = <<>>
    /\ scaleOp = "idle"
    /\ RiffIdle /\ MidiIdle /\ VarLenIdle /\ AnalyzerIdle

Op(op, trackId) == [op |-> op, trackId |-> trackId]

\* a riff track that holds a copy of the panel's riff; its id (track-<time>)
\* is one no track of the list has
newTrack(id, rf) ==
    [id |-> id, type |-> "riff", riff |-> rf, volume |-> DefaultVolume, isMuted |-> FALSE,
     isSoloed |-> FALSE]

trackIds == {tracks[k].id : k \in 1..Len(tracks)}

HandleAddToTrack ==
    /\ Len(tracks) < MaxTracks
    /\ LET id == CHOOSE i \in (1..MaxTracks) \ trackIds :
                     \A j \in (1..MaxTracks) \ trackIds : i <= j
       IN  /\ tracks' = Append(tracks, newTrack(id, riff))
           /\ engine' = createTrackAudio(engine, id, DefaultVolume)
           /\ songPc' = Op("mixer", 0)
    /\ UNCHANGED <<currentTime, triadVars, scaleVars, riffVars, tabVars, midiVars, varLenVars,
                   analyzerVars>>

HandleRemoveTrack(trackId) ==
    /\ trackId \in trackIds
    /\ tracks' = SelectSeq(tracks, LAMBDA t : t.id # trackId)
    /\ engine' = removeTrackAudio(engine, trackId)
    /\ songPc' = Op("mixer", 0)
    /\ UNCHANGED <<currentTime, triadVars, scaleVars, riffVars, tabVars, midiVars, varLenVars,
                   analyzerVars>>

HandleToggleMute(trackId) ==
    /\ \E k \in 1..Len(tracks) :
          /\ tracks[k].id = trackId
          /\ LET newMuted == ~tracks[k].isMuted
             IN  /\ engine' = setTrackMuted(engine, trackId, newMuted)
                 /\ tracks' = [tracks EXCEPT ![k].isMuted = newMuted]
                 /\ songPc' = IF newMuted THEN Op("mute", trackId) ELSE Op("mixer", 0)
    /\ UNCHANGED <<currentTime, triadVars, scaleVars, riffVars, tabVars, midiVars, varLenVars,
                   analyzerVars>>

HandleToggleSolo(trackId) ==
    /\ \E k \in 1..Len(tracks) :
          /\ tracks[k].id = trackId
          /\ LET newTracks == [tracks EXCEPT ![k].isSoloed = ~tracks[k].isSoloed]
             IN  /\ tracks' = newTracks
                 /\ engine' = updateSoloState(engine, newTracks)
    /\ songPc' = Op("mixer", 0)
    /\ UNCHANGED <<currentTime, triadVars, scaleVars, riffVars, tabVars, midiVars, varLenVars,
                   analyzerVars>>

HandleTrackVolumeChange(trackId) ==
    /\ \E k \in 1..Len(tracks), vol \in MixerVolumes :
          /\ tracks[k].id = trackId
          /\ tracks' = [tracks EXCEPT ![k].volume = vol]
          /\ engine' = setTrackVolume(engine, trackId, vol)
    /\ songPc' = Op("mixer", 0)
    /\ UNCHANGED <<currentTime, triadVars, scaleVars, riffVars, tabVars, midiVars, varLenVars,
                   analyzerVars>>

\* handlePlayPause with the tracks as playback source, pressed while there
\* is a track (without track it plays the preview riff)
HandlePlayPause ==
    /\ Len(tracks) > 0
    /\ IF engine.isPlaying
       THEN /\ engine' = pause(engine, currentTime)
            /\ songPc' = Op("pause", 0)
       ELSE /\ engine' = playAllTracks(engine, tracks, tabSheet, riff.bpm, currentTime)
            /\ songPc' = Op("play", 0)
    /\ UNCHANGED <<tracks, currentTime, triadVars, scaleVars, riffVars, tabVars, midiVars,
                   varLenVars, analyzerVars>>

NextMixer ==
    \/ HandleAddToTrack
    \/ \E trackId \in 1..MaxTracks : HandleRemoveTrack(trackId)
    \/ \E trackId \in 1..MaxTracks : HandleToggleMute(trackId)
    \/ \E trackId \in 1..MaxTracks : HandleToggleSolo(trackId)
    \/ \E trackId \in 1..MaxTracks : HandleTrackVolumeChange(trackId)
    \/ HandlePlayPause

\* the mixer is checked on the riff without notes
SpecMixer == InitSong(songRiff(<<>>)) /\ [][NextMixer]_vars

\* the calls on the engine and the passing of time: a tenth of a second in
\* which the animation frame callback, when one is requested, runs
Play ==
    /\ engine' = play(engine, riff, tabSheet, currentTime)
    /\ songPc' = Op("play", 0)
    /\ UNCHANGED <<tracks, currentTime, triadVars, scaleVars, riffVars, tabVars, midiVars,
                   varLenVars, analyzerVars>>

Pause ==
    /\ engine' = pause(engine, currentTime)
    /\ songPc' = Op("pause", 0)
    /\ UNCHANGED <<tracks, currentTime, triadVars, scaleVars, riffVars, tabVars, midiVars,
                   varLenVars, analyzerVars>>

Stop ==
    /\ engine' = stop(engine, currentTime)
    /\ songPc' = Op("stop", 0)
    /\ UNCHANGED <<tracks, currentTime, triadVars, scaleVars, riffVars, tabVars, midiVars,
                   varLenVars, analyzerVars>>

AdvanceTime ==
    /\ engine.ctx
    /\ currentTime < MaxTime
    /\ currentTime' = currentTime + 1
    /\ engine' = IF engine.animationFrameId
                 THEN update(engine, riff.bpm, tabSheet, currentTime + 1)
                 ELSE engine
    /\ songPc' = Op("tick", 0)
    /\ UNCHANGED <<tracks, triadVars, scaleVars, riffVars, tabVars, midiVars, varLenVars,
                   analyzerVars>>

NextEngine == Play \/ Pause \/ Stop \/ AdvanceTime

InitEngine == \E rf \in SongRiffs : InitSong(rf)

SpecEngine == InitEngine /\ [][NextEngine]_vars

(***************************************************************************)
(* Claims about the triad enumerator (SpecTriad).                          *)
(***************************************************************************)
fretsOf(pos) == [k \in 1..3 |-> pos.notes[k].fret]

\* C1: every returned position has its three frets in 0..15 and a span
\* (highest fret minus lowest fret) of at most 5, and no two returned
\* positions have the same string set together with the same three frets.
C1_TriadPlayable ==
    triadDone =>
        /\ \A i \in 1..Len(positions) :
              /\ \A k \in 1..3 : positions[i].notes[k].fret \in 0..15
              /\ \A k, l \in 1..3 :
                    positions[i].notes[k].fret - positions[i].notes[l].fret <= 5
        /\ \A i, j \in 1..Len(positions) :
              (i # j) => ~(/\ positions[i].stringSet = positions[j].stringSet
                           /\ fretsOf(positions[i]) = fretsOf(positions[j]))

\* a result with several positions, one of them at the widest allowed span
C1_Witness ==
    /\ triadDone
    /\ Len(positions) >= 2
    /\ \E i \in 1..Len(positions) : positions[i].span = 5

\* C2: for root C and quality major the result contains the open-position
\* triad on strings 3, 2, 1 at frets 0, 1, 0.
C2_OpenCMajorTriad ==
    (triadDone /\ root = "C" /\ quality = "major") =>
        \E i \in 1..Len(positions) :
            /\ positions[i].stringSet = <<3, 2, 1>>
            /\ fretsOf(positions[i]) = <<0, 1, 0>>

\* C3: the result is ordered by minimum fret ascending, and among equal
\* minimum frets by the first string of the string set descending.
C3_TriadOrdered ==
    triadDone =>
        \A i \in 1..(Len(positions) - 1) :
            /\ positions[i].minFret <= positions[i + 1].minFret
            /\ (positions[i].minFret = positions[i + 1].minFret) =>
                  positions[i].stringSet[1] >= positions[i + 1].stringSet[1]

\* a result where both sort keys decide: a tie on the minimum fret broken by
\* the first string, and a strict step of the minimum fret
C3_Witness ==
    /\ triadDone
    /\ \E i \in 1..(Len(positions) - 1) :
          /\ positions[i].minFret = positions[i + 1].minFret
          /\ positions[i].stringSet[1] > positions[i + 1].stringSet[1]
    /\ \E i \in 1..(Len(positions) - 1) :
          positions[i].minFret < positions[i + 1].minFret

(***************************************************************************)
(* Claims about the note arithmetic (SpecScale).                           *)
(***************************************************************************)
\* the pitch class (index(n) + s) mod 12, with the mathematical modulus
PitchClassPlus(n, s) == NOTES[((NOTE_TO_INDEX(n) + s) % 12) + 1]

\* C4: transposeNote(note, semitones) is the pitch class with index
\* (index(note) + semitones) mod 12 for every integer semitones, also below -12.
C4_TransposeWraps ==
    (scaleOp = "transposeNote") => transposedNote = PitchClassPlus(note, semitones)

\* C5: transposeProgression keeps length and order, the i-th element has the
\* root transposed by the i-th offset and the unchanged quality and degree;
\* I and V in D are D and A.
C5_TransposeProgression ==
    (scaleOp = "transposeProgression") =>
        LET chords == PROGRESSIONS(progression)
        IN  /\ Len(transposed) = Len(chords)
            /\ \A i \in 1..Len(chords) :
                  /\ transposed[i].note = PitchClassPlus(rootNote, chords[i].scaleDegreeOffset)
                  /\ transposed[i].quality = chords[i].quality
                  /\ transposed[i].degree = chords[i].degree
            /\ (rootNote = "D" /\ progression = "fifties1564") =>
                  /\ <<transposed[1].note, transposed[1].degree>> = <<"D", "I">>
                  /\ <<transposed[2].note, transposed[2].degree>> = <<"A", "V">>

\* the I-V-vi-IV progression transposed to D
C5_Witness ==
    /\ scaleOp = "transposeProgression"
    /\ rootNote = "D"
    /\ progression = "fifties1564"
    /\ Len(transposed) = 4
    /\ transposed[2].note = "A"

(***************************************************************************)
(* Claims about the riff generator (SpecRiff).                             *)
(***************************************************************************)
Emitted == riffPc = "pushed" /\ pushed # NoNote

\* C6: every emitted note lies on a string of the style's preferred range
\* with its fret in the style's fret range: melodic strings 1-4 frets 0-12,
\* arpeggiated strings 1-5 frets 0-9, bass-driven strings 4-6 frets 0-5,
\* complex strings 1-6 frets 0-15.
C6_NoteInStyleRange ==
    Emitted =>
        /\ (style = "melodic") => (pushed.string \in 1..4 /\ pushed.fret \in 0..12)
        /\ (style = "arpeggiated") => (pushed.string \in 1..5 /\ pushed.fret \in 0..9)
        /\ (style = "bass-driven") => (pushed.string \in 4..6 /\ pushed.fret \in 0..5)
        /\ (style = "complex") => (pushed.string \in 1..6 /\ pushed.fret \in 0..15)

\* a bass-driven note at the top of its fret range, on its highest string
C6_Witness ==
    /\ Emitted
    /\ style = "bass-driven"
    /\ pushed.string = 4
    /\ pushed.fret = 5

\* C7: a hammer-on follows, in the same measure, a note on the same string
\* at a strictly lower fret, and a pull-off one at a strictly higher fret;
\* the first note of a measure is neither.
C7_LegatoFollowsPrev ==
    [][(riffPc = "beat" /\ riffPc' = "pushed" /\ pushed' # NoNote) =>
          /\ (pushed'.technique = "hammer-on") =>
                (/\ prevNote # NoPosition
                 /\ index > 0
                 /\ prevNote.string = pushed'.string
                 /\ prevNote.fret < pushed'.fret)
          /\ (pushed'.technique = "pull-off") =>
                (/\ prevNote # NoPosition
                 /\ index > 0
                 /\ prevNote.string = pushed'.string
                 /\ prevNote.fret > pushed'.fret)]_vars

\* a note emitted as a hammer-on, and one emitted as a pull-off
C7_Witness ==
    /\ Emitted
    /\ style = "complex"
    /\ pushed.technique = "hammer-on"
    /\ index > 0

\* a member of {5, 7, 12} at the least distance from fret f
NearestHarmonic(h, f) ==
    /\ h \in {5, 7, 12}
    /\ \A g \in {5, 7, 12} : Abs(h - f) <= Abs(g - f)

\* C8: when the harmonic technique is selected for a note resolved at fret f,
\* the emitted fret is the member of {5, 7, 12} nearest to f.
C8_HarmonicNearest ==
    (Emitted /\ drawn.selectedTechnique = "harmonic") =>
        NearestHarmonic(pushed.fret, drawn.position.fret)

\* C9: every target fret a note carries lies in 0..15, and the target of a
\* slide is 2 or 3 frets away from the note's fret.
C9_TargetFretInRange ==
    (Emitted /\ pushed.targetFret # NoFret) =>
        /\ pushed.targetFret \in 0..15
        /\ (pushed.technique \in {"slide-up", "slide-down"}) =>
              Abs(pushed.targetFret - pushed.fret) \in {2, 3}

\* the drawn technique cannot be played on the resolved position
Inapplicable(d, prev) ==
    \/ /\ d.selectedTechnique = "hammer-on"
       /\ ~(prev # NoPosition /\ prev.string = d.position.string /\ prev.fret < d.position.fret)
    \/ /\ d.selectedTechnique = "pull-off"
       /\ ~(prev # NoPosition /\ prev.string = d.position.string /\ prev.fret > d.position.fret)
    \/ /\ d.selectedTechnique = "slide-up"
       /\ d.position.fret < d.slideAmount
    \/ /\ d.selectedTechnique = "slide-down"
       /\ d.position.fret + d.slideAmount > 15
    \/ /\ d.selectedTechnique = "bend"
       /\ (d.position.string > 4 \/ d.position.fret < 5)

\* C10: when the drawn technique is not applicable the note is emitted as a
\* normal note: no technique other than normal, no target fret, and the
\* fret found by position resolution.
C10_InapplicableIsNormal ==
    [][(riffPc = "beat" /\ riffPc' = "pushed" /\ pushed' # NoNote
                        /\ Inapplicable(drawn', prevNote)) =>
          /\ pushed'.technique \in {Undefined, "normal"}
          /\ pushed'.targetFret = NoFret
          /\ pushed'.fret = drawn'.position.fret
          /\ pushed'.string = drawn'.position.string]_vars

\* a bend drawn for a note on string 5 or 6, emitted without technique
C10_Witness ==
    /\ Emitted
    /\ drawn.selectedTechnique = "bend"
    /\ drawn.position.string > 4
    /\ pushed.technique = Undefined
    /\ pushed.targetFret = NoFret

(***************************************************************************)
(* Claims about the style policies of the riff generator (SpecRiff).       *)
(***************************************************************************)
\* the pitch class sounded at the fret of the note just pushed
soundedNote == INDEX_TO_NOTE((STRING_TUNINGS(pushed.string).index + pushed.fret) % 12)

\* the root of the chord that follows the current measure, the first chord
\* of the progression after the last measure
followingRoot == transposed[((chordIndex + 1) % Len(transposed)) + 1].note

\* C11: in a melodic measure a note starting on beat 0 or 2 is a chord tone
\* of the measure's chord, a note starting at beat 3 or later is the pitch
\* class one semitone below the root of the following chord (the first
\* chord of the progression for the last measure), and every other note is
\* a tone of the scale selected for the chord.
C11_MelodicPolicy ==
    (Emitted /\ style = "melodic") =>
        /\ soundedNote = pushed.note
        /\ IF pushed.startBeat \in {0, 2 * BeatUnit}
           THEN pushed.note \in SeqToSet(getChordTones(chordRoot, chordQuality))
           ELSE IF pushed.startBeat >= 3 * BeatUnit
               THEN NOTE_TO_INDEX(pushed.note) = (NOTE_TO_INDEX(followingRoot) + 11) % 12
           ELSE pushed.note \in SeqToSet(getScaleNotes(chordRoot, chordQuality))

\* the last measure (G in the key of C) approaches C from B on beat 3
C11_Witness ==
    /\ Emitted /\ style = "melodic"
    /\ chordIndex = Len(transposed) - 1
    /\ pushed.startBeat = 3 * BeatUnit
    /\ pushed.note = "B"
    /\ followingRoot = "C"

\* C12: in an arpeggiated measure the i-th note (i from 0) has pitch class
\* chordTones[i mod n] and the matching interval label, and the measure has
\* as many notes as its rhythmic pattern has beats.
C12_ArpeggioCycles ==
    (style = "arpeggiated") =>
        /\ Emitted =>
              LET chordTones == getChordTones(chordRoot, chordQuality)
                  i == notesLength - 1
                  k == (i % Len(chordTones)) + 1
              IN  /\ pushed.note = chordTones[k]
                  /\ soundedNote = chordTones[k]
                  /\ pushed.interval = QUALITY_MAP(chordQuality).intervals[k]
                  /\ pushed.startBeat = pattern[i + 1]
        /\ (riffPc = "return") => notesLength = Len(pattern)

\* the fourth note of a measure of C major starts the cycle again at the root
C12_Witness ==
    /\ Emitted /\ style = "arpeggiated"
    /\ notesLength = 4
    /\ chordRoot = "C"
    /\ pushed.note = "C" /\ pushed.interval = "R"

\* C20: in complex style the technique draw of every note of a measure, the
\* first as well as any later one, can select each of the eight techniques
\* of the weighted distribution.
C20_EveryTechniqueSelectable ==
    (riffPc = "beat" /\ style = "complex") =>
        selectableTechniques[prevNote # NoPosition] =
            {TECHNIQUE_WEIGHTS[k].technique : k \in 1..Len(TECHNIQUE_WEIGHTS)}

(***************************************************************************)
(* Claims about the tab formatter (SpecTab).                               *)
(***************************************************************************)
\* the note starts in cell c of a row of `subdivisions` cells:
\* c = floor(startBeat * subdivisions / totalBeats)
startsInCell(n, chordRiff, subdivisions, c) ==
    /\ c * BeatUnit * chordRiff.totalBeats <= n.startBeat * subdivisions
    /\ n.startBeat * subdivisions < (c + 1) * BeatUnit * chordRiff.totalBeats

\* C13: formatTabMeasure places each note, in the order of the measure, in
\* cell floor(startBeat * subdivisions / totalBeats) of its string's row when
\* that index is in 0..subdivisions-1 and omits it otherwise (a cell shows the
\* last note placed in it, and no note where none was placed); every string
\* row has exactly `subdivisions` cells; riffToTabSheet yields one measure per
\* chord riff, in order.
C13_TabPlacement ==
    (tabPc = "tab") =>
        /\ Len(tabSheet.measures) = Len(riff.chordRiffs)
        /\ \A m \in 1..Len(riff.chordRiffs) :
              LET chordRiff == riff.chordRiffs[m]
                  measure == tabSheet.measures[m]
              IN  /\ measure.chordDegree = chordRiff.chordDegree
                  /\ measure.chordRoot = chordRiff.chordRoot
                  /\ \A stringId \in 1..6 :
                        /\ Len(measure.positions[stringId]) = measure.subdivisions
                        /\ \A c \in 0..(measure.subdivisions - 1) :
                              LET placed == {k \in 1..Len(chordRiff.notes) :
                                               /\ chordRiff.notes[k].string = stringId
                                               /\ startsInCell(chordRiff.notes[k], chordRiff,
                                                               measure.subdivisions, c)}
                                  last == CHOOSE k \in placed : \A l \in placed : l <= k
                              IN  measure.positions[stringId][c + 1] =
                                      IF placed = {} THEN NullFret
                                      ELSE chordRiff.notes[last].fret

\* a sheet of two measures: a note at beat 0.25 shown in cell 0 of string 5,
\* and a note at beat 4 left out of the second measure
C13_Witness ==
    /\ tabPc = "tab"
    /\ Len(riff.chordRiffs) = 2
    /\ Len(riff.chordRiffs[1].notes) = 1
    /\ riff.chordRiffs[1].notes[1].startBeat = 1
    /\ riff.chordRiffs[1].notes[1].string = 5
    /\ tabSheet.measures[1].positions[5][1] = riff.chordRiffs[1].notes[1].fret
    /\ Len(riff.chordRiffs[2].notes) = 1
    /\ riff.chordRiffs[2].notes[1].startBeat = 16
    /\ \A stringId \in 1..6 : \A c \in 1..8 : tabSheet.measures[2].positions[stringId][c] = NullFret

\* C14: for every note of the riff that starts inside its measure exactly on
\* a subdivision boundary, getNoteAtPosition at the note's measure, quantized
\* subdivision and string returns the note's fret.
C14_TabReadBack ==
    (tabPc = "tab") =>
        \A m \in 1..Len(riff.chordRiffs) :
            LET chordRiff == riff.chordRiffs[m]
                subdivisions == tabSheet.measures[m].subdivisions
            IN  \A k \in 1..Len(chordRiff.notes) :
                    LET n == chordRiff.notes[k]
                        onBoundary == (n.startBeat * subdivisions)
                                          % (BeatUnit * chordRiff.totalBeats) = 0
                        quantized == (n.startBeat * subdivisions)
                                          \div (BeatUnit * chordRiff.totalBeats)
                    IN  (onBoundary /\ quantized \in 0..(subdivisions - 1)) =>
                            getNoteAtPosition(tabSheet, m - 1, quantized, n.string) = n.fret

\* C15: getNoteAtPosition returns null and hasNotesAtSubdivision returns false
\* whenever the measure index is outside the sheet or the subdivision index
\* is outside 0..subdivisions-1.
C15_LookupOutOfRange ==
    LET outside ==
            \/ ~(lookup.measureIndex \in 0..(Len(tabSheet.measures) - 1))
            \/ ~(lookup.subdivisionIndex \in
                    0..(tabSheet.measures[lookup.measureIndex + 1].subdivisions - 1))
    IN  /\ (lookup.op = "getNoteAtPosition" /\ outside) => lookup.result = NullFret
        /\ (lookup.op = "hasNotesAtSubdivision" /\ outside) => lookup.result = FALSE

(***************************************************************************)
(* Claims about the MIDI export (SpecMidi).  The files are read back by a  *)
(* Standard MIDI File reader.                                              *)
(***************************************************************************)
be16(bytes, pos) == bytes[pos] * 256 + bytes[pos + 1]
be32(bytes, pos) == be16(bytes, pos) * 65536 + be16(bytes, pos + 2)

\* a variable-length quantity read at pos: its value and the next position
RECURSIVE readVarLen(_, _, _)
readVarLen(bytes, pos, acc) ==
    IF bytes[pos] >= 128 THEN readVarLen(bytes, pos + 1, acc * 128 + bytes[pos] - 128)
    ELSE [value |-> acc * 128 + bytes[pos], next |-> pos + 1]

\* the events of the track data bytes[pos..last], with their absolute ticks
RECURSIVE readEvents(_, _, _, _)
readEvents(bytes, pos, last, tick) ==
    IF pos > last THEN <<>>
    ELSE LET delta == readVarLen(bytes, pos, 0)
             at == delta.next
             status == bytes[at]
         IN  IF status = 255
             THEN <<[tick |-> tick + delta.value, kind |-> "meta", channel |-> 0,
                     note |-> bytes[at + 1], velocity |-> 0]>>
                      \o readEvents(bytes, at + 3 + bytes[at + 2], last, tick + delta.value)
             ELSE <<[tick |-> tick + delta.value,
                     kind |-> IF status \div 16 = 9 THEN "on" ELSE "off",
                     channel |-> status % 16, note |-> bytes[at + 1],
                     velocity |-> bytes[at + 2]]>>
                      \o readEvents(bytes, at + 3, last, tick + delta.value)

isNoteEvent(e) == e.kind \in {"on", "off"}
isNoteOn(e) == e.kind = "on"

\* the note events of the track chunk that starts at pos
chunkNoteEvents(bytes, pos) ==
    SelectSeq(readEvents(bytes, pos + 8, pos + 7 + be32(bytes, pos + 4), 0), isNoteEvent)

\* the note events of the file of exportRiffToMidi, and of the riff track
\* (the second chunk) of the file of exportTracksToMidi
riffFileEvents == chunkNoteEvents(midi, 15)
trackFileEvents == chunkNoteEvents(tracksMidi, 15 + 8 + be32(tracksMidi, 19))

\* the ticks at which the notes of the riff start and end
riffTicks ==
    UNION {UNION {{(m - 1) * 1920 + n.startBeat * 120,
                   (m - 1) * 1920 + (n.startBeat + n.duration) * 120} :
                      n \in SeqToSet(riff.chordRiffs[m].notes)} :
              m \in 1..Len(riff.chordRiffs)}

\* C16: the file of exportRiffToMidi begins with 4D 54 68 64, length 6,
\* format 0, one track and division 480, followed by one MTrk chunk whose
\* declared length is the number of bytes that follow it in the file, the
\* last three of which are FF 2F 00; this for every riff, without notes or
\* without measures as well.
C16_MidiStructure ==
    (midiPc # "riff" /\ midiPc # "idle") =>
        /\ \A i \in 1..Len(midi) : midi[i] \in 0..255
        /\ SubSeq(midi, 1, 4) = <<77, 84, 104, 100>>
        /\ be32(midi, 5) = 6
        /\ be16(midi, 9) = 0
        /\ be16(midi, 11) = 1
        /\ be16(midi, 13) = 480
        /\ SubSeq(midi, 15, 18) = <<77, 84, 114, 107>>
        /\ be32(midi, 19) = Len(midi) - 22
        /\ SubSeq(midi, Len(midi) - 2, Len(midi)) = <<255, 47, 0>>

\* the file of a riff without measures: name, tempo and end of track only
C16_Witness ==
    /\ midiPc = "exported"
    /\ Len(riff.chordRiffs) = 0
    /\ be32(midi, 19) = Len(midi) - 22
    /\ riffFileEvents = <<>>

\* the order the track keeps: ticks never decrease, and at one tick no
\* note-on comes before a note-off
inTickOrder(events) ==
    \A i, j \in 1..Len(events) :
        (i < j) =>
            /\ events[i].tick <= events[j].tick
            /\ ~(events[i].tick = events[j].tick /\ events[i].kind = "on"
                                                 /\ events[j].kind = "off")

\* every delta time was written as a number >= 0: the track has the two
\* events of each note, and read back they fall on the ticks at which the
\* notes of the riff start and end
deltasNonNegative(events) ==
    /\ Len(events) = 2 * countNotes(riff, Len(riff.chordRiffs))
    /\ \A i \in 1..Len(events) : events[i].tick \in riffTicks
    /\ \A t \in riffTicks : \E i \in 1..Len(events) : events[i].tick = t

\* C17: in the track of exportRiffToMidi and in the riff track of
\* exportTracksToMidi the note-on/note-off events are in non-decreasing
\* absolute tick order, every delta time is >= 0, and at one tick all
\* note-offs precede all note-ons.
orderedTrack(events) == inTickOrder(events) /\ deltasNonNegative(events)

hasNoteOnOfEachNote(events) ==
    \A m \in 1..Len(riff.chordRiffs) :
        \A n \in SeqToSet(riff.chordRiffs[m].notes) :
            \E i \in 1..Len(events) :
                /\ events[i].kind = "on"
                /\ events[i].note = STRING_TUNINGS(n.string).midi + n.fret
                /\ events[i].tick = (m - 1) * 1920 + n.startBeat * 120

C18_MidiNoteNumber ==
    (midiPc \in {"exported", "tracks"}) => hasNoteOnOfEachNote(riffFileEvents)

\* one note on string 6 (low E, MIDI 40) at fret 3, in the second measure
C18_Witness ==
    /\ midiPc = "exported"
    /\ Len(riff.chordRiffs) = 2
    /\ riff.chordRiffs[1].notes = <<>>
    /\ Len(riff.chordRiffs[2].notes) = 1
    /\ riff.chordRiffs[2].notes[1].string = 6
    /\ riff.chordRiffs[2].notes[1].fret = 3
    /\ riff.chordRiffs[2].notes[1].startBeat = 4
    /\ riffFileEvents = <<[tick |-> 1920, kind |-> "off", channel |-> 0, note |-> 43,
                            velocity |-> 0],
                           [tick |-> 1920 + 480, kind |-> "on", channel |-> 0, note |-> 43,
                            velocity |-> riffVelocity(riff.chordRiffs[2].notes[1].technique)]>>

\* C19: for a riff track of volume v exportTracksToMidi gives every note the
\* velocity exportRiffToMidi gives it scaled by v, so that at v = 1 the two
\* files have equal note-on velocities, whatever the technique.
C19_SameAttenuation ==
    (midiPc = "tracks") =>
        LET riffOn == SelectSeq(riffFileEvents, isNoteOn)
            trackOn == SelectSeq(trackFileEvents, isNoteOn)
        IN  /\ Len(trackOn) = Len(riffOn)
            /\ \A i \in 1..Len(riffOn) :
                  /\ trackOn[i].velocity = roundDiv(riffOn[i].velocity * volume, 100)
                  /\ (volume = 100) => trackOn[i].velocity = riffOn[i].velocity


(***************************************************************************)
(* Claims about the mixer of the Song Builder (SpecMixer).                 *)
(***************************************************************************)
anySoloed == \E k \in 1..Len(tracks) : tracks[k].isSoloed

\* the value of the gain node of a track in the engine
gainOf(e, track) == e.trackGains[track.id]

\* C21: after any sequence of mixer operations (add track, remove track,
\* toggle mute, toggle solo, change track volume, play all tracks), whenever
\* at least one track is soloed every track that is not soloed has gain 0 in
\* the audio engine.
C21_SoloSilencesOthers ==
    anySoloed =>
        \A k \in 1..Len(tracks) :
            ~tracks[k].isSoloed =>
                /\ tracks[k].id \in DOMAIN engine.trackGains
                /\ gainOf(engine, tracks[k]) = 0

\* C24: with no track soloed, muting a track and then unmuting it
\* (handleToggleMute twice) leaves the gain of the track in the engine equal
\* to the volume of the track.
C24_MuteUnmuteRestores ==
    [][\A trackId \in 1..MaxTracks :
          (songPc = Op("mute", trackId) /\ ~anySoloed /\ HandleToggleMute(trackId)) =>
              \A k \in 1..Len(tracks') :
                  tracks'[k].id = trackId => gainOf(engine', tracks'[k]) = tracks'[k].volume]_vars

(***************************************************************************)
(* Claims about variable-length quantities (SpecVarLen).                   *)
(***************************************************************************)
\* the low 7 bits of the first k bytes, most significant first
RECURSIVE low7Bits(_, _)
low7Bits(bytes, k) == IF k = 0 THEN 0 ELSE low7Bits(bytes, k - 1) * 128 + (bytes[k] % 128)

\* C22: writeVarLen encodes every integer 0 <= v < 2^28 as 1 to 4 bytes in
\* which every byte but the last has its high bit set and the last has it
\* clear, and the low 7 bits of the bytes, most significant first, give back v.
C22_VarLenRoundTrip ==
    (varLenPc = "written" /\ varLenValue >= 0 /\ varLenValue < 2^28) =>
        /\ Len(varLenBytes) \in 1..4
        /\ \A i \in 1..(Len(varLenBytes) - 1) : varLenBytes[i] \in 128..255
        /\ varLenBytes[Len(varLenBytes)] \in 0..127
        /\ low7Bits(varLenBytes, Len(varLenBytes)) = varLenValue

\* the largest value is written on four bytes
C22_Witness ==
    /\ varLenPc = "written"
    /\ varLenValue = 2^28 - 1
    /\ varLenBytes = <<255, 255, 255, 127>>

(***************************************************************************)
(* Claims about the notes of generated riffs (SpecRiff), continued.        *)
(***************************************************************************)
\* C23: every note of every riff produced by generateProgressionRiff (any
\* style, any random outcome) has a strictly positive duration, so that in
\* the exported MIDI track its note-off is at a later tick than its note-on.
C23_PositiveDuration == (pushed # NoNote) => pushed.duration > 0

\* C27: for every generated riff note, the pitch class sounded at the note's
\* string and fret in the tuning, (open index + fret) mod 12, equals the
\* pitch class recorded in its note field, for every style and technique.
C27_FretSoundsNote ==
    (pushed # NoNote) =>
        INDEX_TO_NOTE((STRING_TUNINGS(pushed.string).index + pushed.fret) % 12) = pushed.note

\* C28: every generated riff note that carries an interval label satisfies
\* transpose(chordRoot, semitones of the label) = note, for every style and
\* every chord quality of the progression catalog (diminished included).
C28_IntervalLabelsNote ==
    (pushed # NoNote /\ pushed.interval # Undefined) =>
        calculateNoteFromInterval(chordRoot, pushed.interval) = pushed.note

(***************************************************************************)
(* Claims about playback of the song engine (SpecEngine).                  *)
(***************************************************************************)
\* the event is scheduled in the loop iteration iter: each of its notes that
\* sounds through an oscillator is in activeNodes at the time of the event
scheduledIn(e, event, iter) ==
    \A j \in 1..Len(event.notes) :
        event.notes[j].technique # "muted" =>
            \E a \in 1..Len(e.activeNodes) :
                e.activeNodes[a] =
                    ActiveNode(e.startTime + iter * e.loopDuration + event.time,
                               event.type, event.trackId, event.notes[j])

\* C25: play() after pause() schedules every event of the loop iteration in
\* which playback was paused whose time is at or after the resume position,
\* whichever iteration (the first or a later repeat) that was.
C25_ResumeSchedulesRemaining ==
    [][(Play /\ engine.ctx /\ ~engine.isPlaying /\ engine.pauseTime > 0) =>
          LET e == engine'
              iter == engine.pauseTime \div e.loopDuration
              position == engine.pauseTime % e.loopDuration
          IN  \A k \in 1..Len(e.scheduledEvents) :
                  e.scheduledEvents[k].time >= position =>
                      scheduledIn(e, e.scheduledEvents[k], iter)]_vars

ChordFormula(name, intervals, q, fullName) ==
    [name |-> name, intervals |-> intervals, quality |-> q, fullName |-> fullName]

\* in the order of Object.entries
CHORD_FORMULAS ==
    <<ChordFormula("major", <<0, 4, 7>>, "major", "Major"),
      ChordFormula("minor", <<0, 3, 7>>, "minor", "minor"),
      ChordFormula("diminished", <<0, 3, 6>>, "dim", "Diminished"),
      ChordFormula("augmented", <<0, 4, 8>>, "aug", "Augmented"),
      ChordFormula("sus2", <<0, 2, 7>>, "sus2", "Suspended 2nd"),
      ChordFormula("sus4", <<0, 5, 7>>, "sus4", "Suspended 4th"),
      ChordFormula("major7", <<0, 4, 7, 11>>, "maj7", "Major 7th"),
      ChordFormula("minor7", <<0, 3, 7, 10>>, "m7", "Minor 7th"),
      ChordFormula("dominant7", <<0, 4, 7, 10>>, "7", "Dominant 7th"),
      ChordFormula("diminished7", <<0, 3, 6, 9>>, "dim7", "Diminished 7th"),
      ChordFormula("halfDiminished7", <<0, 3, 6, 10>>, "m7b5", "Half-Diminished 7th"),
      ChordFormula("minorMajor7", <<0, 3, 7, 11>>, "mMaj7", "Minor Major 7th"),
      ChordFormula("augmented7", <<0, 4, 8, 10>>, "aug7", "Augmented 7th"),
      ChordFormula("major6", <<0, 4, 7, 9>>, "6", "Major 6th"),
      ChordFormula("minor6", <<0, 3, 7, 9>>, "m6", "Minor 6th"),
      ChordFormula("add9", <<0, 4, 7, 14>>, "add9", "Add 9"),
      ChordFormula("major9", <<0, 4, 7, 11, 14>>, "maj9", "Major 9th"),
      ChordFormula("minor9", <<0, 3, 7, 10, 14>>, "m9", "Minor 9th"),
      ChordFormula("dominant9", <<0, 4, 7, 10, 14>>, "9", "Dominant 9th"),
      ChordFormula("power", <<0, 7>>, "5", "Power Chord")>>

noteToSemitone(n) == NOTE_TO_INDEX(n)

\* notes.filter with the seen set: the first occurrence of each note, in order
getUniqueNotes(ns) ==
    LET kept == {i \in 1..Len(ns) : \A j \in 1..(i - 1) : ns[j] # ns[i]}
    IN  [k \in 1..Cardinality(kept) |->
            ns[CHOOSE i \in kept : Cardinality({j \in kept : j < i}) = k - 1]]

\* sort((a, b) => a - b), a stable sort
sortAscending(xs) ==
    LET before(i) == {j \in 1..Len(xs) : xs[j] < xs[i] \/ (xs[j] = xs[i] /\ j < i)}
    IN  [k \in 1..Len(xs) |-> xs[CHOOSE i \in 1..Len(xs) : Cardinality(before(i)) = k - 1]]

calculateIntervals(r, ns) ==
    LET rootSemitone == noteToSemitone(r)
    IN  sortAscending([k \in 1..Len(ns) |->
            LET interval == noteToSemitone(ns[k]) - rootSemitone
            IN  IF interval < 0 THEN interval + 12 ELSE interval])

matchesFormula(intervals, formula) ==
    IF Len(intervals) < Len(formula) THEN FALSE
    ELSE LET uniqueIntervals == {intervals[k] % 12 : k \in 1..Len(intervals)}
         IN  \A k \in 1..Len(formula) : formula[k] \in uniqueIntervals

calculateConfidence(intervals, formula) ==
    LET normalizedIntervals == {intervals[k] % 12 : k \in 1..Len(intervals)}
        matchCount == Cardinality({k \in 1..Len(formula) : formula[k] \in normalizedIntervals})
    IN  IF Cardinality(normalizedIntervals) = Len(formula) /\ matchesFormula(intervals, formula)
        THEN 100
        ELSE IF Cardinality(normalizedIntervals) > Len(formula) /\ matchesFormula(intervals, formula)
        THEN 80
        ELSE roundDiv(matchCount * 70, Len(formula))

\* formula.includes(i)
includes(formula, i) == \E k \in 1..Len(formula) : formula[k] = i

\* bassInterval is the first element of intervals, the list calculateIntervals
\* has sorted
detectInversion(intervals, formula, bassNote, r) ==
    IF bassNote = r THEN Undefined
    ELSE LET bassInterval == intervals[1] % 12
         IN  IF includes(formula, 3) /\ bassInterval = 3 THEN "1st inversion"
             ELSE IF includes(formula, 4) /\ bassInterval = 4 THEN "1st inversion"
             ELSE IF includes(formula, 7) /\ bassInterval = 7 THEN "2nd inversion"
             ELSE IF includes(formula, 10) /\ bassInterval = 10 THEN "3rd inversion"
             ELSE IF includes(formula, 11) /\ bassInterval = 11 THEN "3rd inversion"
             ELSE "slash chord"

\* the keys 0 to 11 of intervalMap; the key 14 is never looked up, since the
\* index is i % 12
intervalMap ==
    <<"R", "b2", "2", "b3", "3", "4", "b5/#4", "5", "#5/b6", "6", "b7", "7">>

getIntervalNames(intervals) ==
    [k \in 1..Len(intervals) |-> intervalMap[(intervals[k] % 12) + 1]]

ChordInterpretation(r, q, intervals, confidence, inversion, bassNote) ==
    [root |-> r, quality |-> q, intervals |-> intervals, confidence |-> confidence,
     inversion |-> inversion, bassNote |-> bassNote]

\* the loop over CHORD_FORMULAS for one potential root
interpretationsOf(ns, uniqueNotes, potentialRoot) ==
    LET intervals == calculateIntervals(potentialRoot, uniqueNotes)
        matched == SelectSeq(CHORD_FORMULAS,
                       LAMBDA formulaData :
                           /\ matchesFormula(intervals, formulaData.intervals)
                           /\ calculateConfidence(intervals, formulaData.intervals) >= 60)
        bassNote == ns[1]
    IN  [k \in 1..Len(matched) |->
            ChordInterpretation(
                potentialRoot, matched[k].quality, getIntervalNames(intervals),
                calculateConfidence(intervals, matched[k].intervals),
                detectInversion(intervals, matched[k].intervals, bassNote, potentialRoot),
                IF bassNote # potentialRoot THEN bassNote ELSE Undefined)]

\* for (const potentialRoot of uniqueNotes), from the k-th unique note on
RECURSIVE interpretationsFrom(_, _, _)
interpretationsFrom(ns, uniqueNotes, k) ==
    IF k > Len(uniqueNotes) THEN <<>>
    ELSE interpretationsOf(ns, uniqueNotes, uniqueNotes[k])
             \o interpretationsFrom(ns, uniqueNotes, k + 1)

\* interpretations.sort((a, b) => b.confidence - a.confidence), a stable sort
sortByConfidence(is) ==
    LET before(i) == {j \in 1..Len(is) :
                        \/ is[j].confidence > is[i].confidence
                        \/ (is[j].confidence = is[i].confidence /\ j < i)}
    IN  [k \in 1..Len(is) |-> is[CHOOSE i \in 1..Len(is) : Cardinality(before(i)) = k - 1]]

analyzeChord(ns) ==
    LET uniqueNotes == getUniqueNotes(ns)
        noteCount == Len(uniqueNotes)
        interpretations == sortByConfidence(interpretationsFrom(ns, uniqueNotes, 1))
    IN  IF noteCount = 0
        THEN [possibleChords |-> <<>>, uniqueNotes |-> <<>>, noteCount |-> 0]
        ELSE IF noteCount = 1
        THEN [possibleChords |->
                  <<ChordInterpretation(uniqueNotes[1], "", <<"R">>, 100, Undefined, Undefined)>>,
              uniqueNotes |-> uniqueNotes, noteCount |-> noteCount]
        ELSE [possibleChords |->
                  IF Len(interpretations) = 0
                  THEN <<ChordInterpretation(
                             uniqueNotes[1], "",
                             getIntervalNames(calculateIntervals(uniqueNotes[1], uniqueNotes)),
                             0, Undefined, Undefined)>>
                  ELSE interpretations,
              uniqueNotes |-> uniqueNotes, noteCount |-> noteCount]

\* the notes of a formula on a root: the root transposed by each interval
formulaNotes(formulaData, r) ==
    [k \in 1..Len(formulaData.intervals) |-> transposeNoteWrapped(r, formulaData.intervals[k])]

\* the voicing with the b-th note of ns in the bass, the others in order
withBass(ns, b) ==
    <<ns[b]>> \o SubSeq(ns, 1, b - 1) \o SubSeq(ns, b + 1, Len(ns))

\* the voicing of a chord with its b-th note (its last, if it has fewer) in the bass
chordVoicing(formulaData, r, b) ==
    withBass(formulaNotes(formulaData, r), Min2(b, Len(formulaData.intervals)))

\* the voicings analysed: no note, one note, and every chord of
\* CHORD_FORMULAS on every root with each of its notes in the bass, as it is
\* and with the bass doubled on top
Voicings ==
    {<<>>}
        \cup {<<r>> : r \in NoteIds}
        \cup {chordVoicing(CHORD_FORMULAS[f], r, b) :
                 f \in 1..Len(CHORD_FORMULAS), r \in NoteIds, b \in 1..5}
        \cup {Append(chordVoicing(CHORD_FORMULAS[f], r, b), chordVoicing(CHORD_FORMULAS[f], r, b)[1]) :
                 f \in 1..Len(CHORD_FORMULAS), r \in NoteIds, b \in 1..5}

InitAnalyzer ==
    /\ selectedNotes \in Voicings
    /\ analysis = NoAnalysis
    /\ analyzerPc = "idle"
    /\ root = "C" /\ quality = "major" /\ positions = <<>> /\ triadDone = FALSE
    /\ note = "C" /\ semitones = 0 /\ transposedNote = Undefined
    /\ progression = "classic145" /\ rootNote = "C" /\ transposed = <<>>
    /\ scaleOp = "idle"
    /\ RiffIdle /\ TabIdle /\ MidiIdle /\ VarLenIdle /\ SongIdle

\* the analysis memo of the analyzer panel
AnalyzeChord ==
    /\ analyzerPc = "idle"
    /\ analysis' = analyzeChord(selectedNotes)
    /\ analyzerPc' = "analyzed"
    /\ UNCHANGED <<selectedNotes, triadVars, scaleVars, riffVars, tabVars, midiVars, varLenVars,
                   songVars>>

NextAnalyzer == AnalyzeChord

SpecAnalyzer == InitAnalyzer /\ [][NextAnalyzer]_vars

(***************************************************************************)
(* Claims about the chord analyzer (SpecAnalyzer).                         *)
(***************************************************************************)
\* C29: for every entry of CHORD_FORMULAS and every root, analyzeChord on
\* the notes obtained by adding the formula's intervals to the root (root
\* listed first) returns an interpretation with that root and that
\* formula's quality.
C29_FormulaRecognised ==
    analyzerPc = "analyzed" =>
        \A f \in 1..Len(CHORD_FORMULAS), r \in NoteIds :
            selectedNotes = formulaNotes(CHORD_FORMULAS[f], r) =>
                \E i \in 1..Len(analysis.possibleChords) :
                    /\ analysis.possibleChords[i].root = r
                    /\ analysis.possibleChords[i].quality = CHORD_FORMULAS[f].quality

\* the formula an interpretation was matched with
formulaOfQuality(q) ==
    CHORD_FORMULAS[CHOOSE f \in 1..Len(CHORD_FORMULAS) : CHORD_FORMULAS[f].quality = q].intervals

\* the inversion named by the interval from the root up to the bass note
inversionOfBass(formula, bassNote, r) ==
    LET bassInterval == (noteToSemitone(bassNote) + 12 - noteToSemitone(r)) % 12
    IN  IF bassInterval \in {3, 4} /\ includes(formula, bassInterval) THEN "1st inversion"
        ELSE IF bassInterval = 7 /\ includes(formula, 7) THEN "2nd inversion"
        ELSE IF bassInterval \in {10, 11} /\ includes(formula, bassInterval) THEN "3rd inversion"
        ELSE "slash chord"

\* C30: when the first note given to analyzeChord (the bass note) is the
\* third of a matched chord its inversion is '1st inversion', when it is
\* the fifth '2nd inversion', when it is the seventh '3rd inversion';
\* 'slash chord' is reported only when the bass note is none of these.
C30_InversionNamesBass ==
    analyzerPc = "analyzed" =>
        \A i \in 1..Len(analysis.possibleChords) :
            LET chord == analysis.possibleChords[i]
            IN  (chord.quality # "" /\ selectedNotes[1] # chord.root) =>
                    chord.inversion =
                        inversionOfBass(formulaOfQuality(chord.quality), selectedNotes[1], chord.root)
=============================================================================
